---- MODULE Spec2Model ----
(***************************************************************************)
(* Model of lantz_core: the Feature access pipeline (Feature._get,         *)
(* Feature._set, get_chain, set_chain), the per-host cache of HasFeatures  *)
(* (clear_cache), and the lock shared by a root driver and its subsystems. *)
(*                                                                         *)
(* The driver class under analysis is                                      *)
(*                                                                         *)
(*   class Driver(BaseDriver):                                             *)
(*       A = Feature(True, True, retries=N, discard=D)                     *)
(*       ss = subsystem()                                                  *)
(*       ss.B = Feature(True, True, retries=1, checks='driver.aux == 1')   *)
(*       def _pre_set_A(self, feat, value): return 2*value                 *)
(*       def _post_set_A(self, feat, value, i_value, response): pass       *)
(*                                                                         *)
(* where N, D and the presence of _post_set_A are chosen in Init.          *)
(* The variables actor, watch and hist are history variables.              *)
(***************************************************************************)
EXTENDS Integers, Sequences, FiniteSets, TLC

\* ---------------------------------------------------------------- bounds
MaxRetries == 2
MaxVal == 2

Threads == {"t1", "t2"}
Hosts == {"root", "ss"}
Values == 1..MaxVal
\* Marker of an absent dict entry / an unset local.
NoVal == 0
NoThread == "nobody"
NoHost == "nohost"

\* Responses of the write stage (default_set_feature's return value).
Responses == {7}

\* Exceptions: driver.retries_exceptions holds TimeoutError only.
retries_exceptions == {"TimeoutError"}
StageExceptions == {"TimeoutError", "InvalidCommand"}

\* ------------------------------------------------------- class structure
\* SubSystem.parent: the object a sub-container was created for.
parent(h) == IF h = "ss" THEN "root" ELSE NoHost

\* cls.__subsystems__ of the class of host h.
subsystems_of(h) == IF h = "root" THEN {"ss"} ELSE {}

\* cls.__feats__ : names of the features declared on the class of host h.
FeatNames(h) == IF h = "root" THEN {"A"} ELSE {"B"}

Feats == {<<"root", "A">>, <<"ss", "B">>}

\* SubSystem.lock / Channel.lock: a sub-container hands out its parent's
\* lock; the root owns the RLock created in BaseDriver.__init__.
LockOfOwn(h) == h

RECURSIVE LockOf(_)
LockOf(h) == IF parent(h) = NoHost THEN h ELSE LockOf(parent(h))

\* --------------------------------------------------------- hook composers
\* A stage slot of a Feature is either a bound method (composer = FALSE,
\* names = <<the method>>) or a MethodsComposer (names = the ids in order).
Method(m) == [composer |-> FALSE, names |-> <<m>>]

RemoveAt(s, i) == SubSeq(s, 1, i - 1) \o SubSeq(s, i + 1, Len(s))

IndexOf(s, x) == CHOOSE i \in 1..Len(s) : s[i] = x /\ \A j \in 1..(i - 1) : s[j] # x

InSeq(s, x) == \E i \in 1..Len(s) : s[i] = x

\* MethodsComposer._remove_duplicate
remove_duplicate(names, id) ==
    IF InSeq(names, id) THEN RemoveAt(names, IndexOf(names, id)) ELSE names

\* MethodsComposer.append / prepend
composer_append(names, id) == remove_duplicate(names, id) \o <<id>>

composer_prepend(names, id) == <<id>> \o remove_duplicate(names, id)

\* Feature.modify_behavior for the operations used while a class is built:
\* no specifiers (or get/set): the slot is replaced by the method; with a
\* specifier the slot is made a composer (a fresh, empty one when the slot
\* holds a plain method and the change is internal) and the id is inserted.
modify_behavior(f, method_name, id, op) ==
    IF op = "replace_method" \/ method_name \in {"get", "set"}
    THEN [f EXCEPT ![method_name] = Method(id)]
    ELSE LET old == f[method_name]
             names0 == IF old.composer THEN old.names ELSE <<>>
             names1 == IF op = "append" THEN composer_append(names0, id)
                       ELSE composer_prepend(names0, id)
         IN [f EXCEPT ![method_name] = [composer |-> TRUE, names |-> names1]]

\* The discard argument of a Feature: absent, a tuple of names, or a dict
\* with a 'features' key.  A name is the sequence of its dot-separated
\* parts: <<"A">> is 'A', <<"ss", "B">> is 'ss.B'.
NoDiscard == [given |-> FALSE, has_features |-> FALSE, features |-> {}]
DiscardNames(ns) == [given |-> TRUE, has_features |-> TRUE, features |-> ns]
DiscardB == DiscardNames({<<"ss", "B">>})
DiscardChoices == {NoDiscard, DiscardB}

\* Feature.__init__
FeatureInit(retries, checks, discard) ==
    LET f0 == [retries |-> retries,
               discard |-> discard,
               pre_get |-> Method("pre_get"),
               get |-> Method("get"),
               post_get |-> Method("post_get"),
               pre_set |-> Method("pre_set"),
               set |-> Method("set"),
               post_set |-> Method("post_set")]
        f1 == IF checks
              THEN modify_behavior(modify_behavior(f0, "pre_get", "checks", "prepend"),
                                   "pre_set", "checks", "prepend")
              ELSE f0
        f2 == IF discard.given
              THEN modify_behavior(f1, "post_set", "discard", "append")
              ELSE f1
    IN f2

\* HasFeaturesMeta.__new__ / customize_feats: the specially named methods
\* of the driver class are applied to the features they target.
DriverClass(n, d, custom_post_set) ==
    LET a0 == FeatureInit(n, FALSE, d)
        a1 == modify_behavior(a0, "pre_set", "driver", "replace_method")
        a2 == IF custom_post_set
              THEN modify_behavior(a1, "post_set", "driver", "replace_method")
              ELSE a1
    IN [ft \in Feats |->
          IF ft = <<"root", "A">> THEN a2 ELSE FeatureInit(1, TRUE, NoDiscard)]

\* ------------------------------------------------------------------ state
VARIABLES
    feats,      \* class-level Feature objects (cls.__feats__), by <<host, name>>
    use_cache,  \* HasFeatures.use_cache of each host
    cache,      \* HasFeatures._cache of each host: name -> value or NoVal
    lock,       \* the RLock of each host that owns one: owner and count
    pc,         \* position of each thread in Feature._get / Feature._set
    fr,         \* locals of the access each thread is executing
    live,       \* the threads that use the driver
    actor,      \* history: the thread that took the last step
    watch,      \* history: the feature whose accesses hist follows
    hist        \* history: outcomes of the accesses of the watched feature

\* State of a LimitsValidated feature shared by two drivers of one class.
VARIABLES
    limits,         \* attribute `limits` of the class-level Feature object
    limits_cache    \* HasFeatures._limits_cache of each driver

limitsVars == <<limits, limits_cache>>

\* State of class assembly (HasFeaturesMeta.__new__).
VARIABLES
    heap,       \* the Feature objects created so far, by object id
    logs,       \* the OrderedDict objects held in Feature._customs, by id
    classes     \* the classes: __feats__, the descriptors in the class dict

classVars == <<heap, logs, classes>>
\* State of one MethodsComposer and of the calls made on it.
VARIABLES
    composer,       \* the composer: its class, _names and _methods
    registered,     \* the hook last passed to the composer under each id
    last            \* the last method called on the composer and its outcome
composerVars == <<composer, registered, last>>

\* State of a driver with a channel container.
VARIABLES
    insts,          \* the HasFeatures instances created so far, by object id
    _channels,      \* ChannelContainer._channels: channel id -> instance
    available,      \* what the parent's listing method returns now
    chlast          \* history: the last operation and its arguments

chanVars == <<insts, _channels, available, chlast>>

\* State of a function under study and of the instrument behind a scalar
\* feature.
VARIABLES
    instr,          \* the value the instrument holds (the tester's val)
    call,           \* the arguments the function under study is called with
    result          \* what the last call returned or raised

scalarVars == <<instr, call, result>>

vars == <<feats, use_cache, cache, lock, pc, fr, live, actor, watch, hist,
          limitsVars, classVars, composerVars, chanVars, scalarVars>>

\* No function is under study.
NoScalars == instr = NoVal /\ call = <<>> /\ result = <<>>

\* No driver with channels is in use.
NoChannels ==
    /\ insts = <<>> /\ _channels = <<>> /\ available = <<>>
    /\ chlast = <<>>

\* No class is being assembled.
NoClassAssembly == heap = <<>> /\ logs = <<>> /\ classes = <<>>
\* No composer is under study.
NoComposer == composer = <<>> /\ registered = <<>> /\ last = <<>>

\* No LimitsValidated feature is declared.
NoLimitsFeature == limits = NoVal /\ limits_cache = <<>>

NoCalls == [pre_get |-> 0, get |-> 0, post_get |-> 0, pre_set |-> 0,
            set |-> 0, post_set |-> 0, reopen |-> 0, check |-> 0]

\* Locals of one access.  i, val, i_val, resp are the locals of get_chain and
\* set_chain; stale tells that the dict bound to the local `cache` is no
\* longer the host's _cache; the other fields are history (retried is the
\* last exception after which the stage was attempted again).
Frame(op, h, n, v) ==
    [op |-> op, host |-> h, name |-> n, value |-> v,
     i |-> -1, val |-> NoVal, i_val |-> NoVal, resp |-> NoVal,
     result |-> NoVal, exc |-> "none", exc_stage |-> "none",
     hit |-> FALSE, stale |-> FALSE, disturbed |-> FALSE,
     calls |-> NoCalls, set_args |-> {}, check_args |-> <<>>, check_res |-> TRUE,
     exp_w |-> FALSE, exp_r |-> NoVal, exp_d |-> FALSE, prior_set |-> 0,
     retried |-> "none"]

IdleFrame == Frame("none", NoHost, "none", NoVal)

InPipeline(t) == pc[t] \in {"pre_get", "get", "post_get", "pre_set", "set", "post_set"}

FreeLock == [owner |-> NoThread, count |-> 0]

\* RLock.acquire succeeds when the lock is free or held by the caller.
CanAcquire_free(l, t) == lock[l].owner = NoThread
CanAcquire(l, t) == lock[l].owner \in {NoThread, t}

Acquire(l, t) == [lock EXCEPT ![l] = [owner |-> t, count |-> @.count + 1]]

Release(l, t) ==
    [lock EXCEPT ![l] = IF @.count = 1 THEN FreeLock
                        ELSE [owner |-> t, count |-> @.count - 1]]

\* ------------------------------------------------------------ clear_cache
\* HasFeatures.clear_cache, on st = [cache, replaced]: replaced collects the
\* hosts whose _cache attribute was rebound to a new dict.
RECURSIVE clear_cache(_, _, _, _, _), clear_each(_, _, _, _, _)

clear_each(st, hs, subsystems, channels, features_of) ==
    IF hs = {} THEN st
    ELSE LET s == CHOOSE x \in hs : TRUE
         IN clear_each(clear_cache(st, s, subsystems, channels, features_of[s]),
                       hs \ {s}, subsystems, channels, features_of)

clear_cache(st, h, subsystems, channels, features) ==
    IF features # {}
    THEN LET dotted == {n \in features : Len(n) > 1}
             plain == {n[1] : n \in features \ dotted}
             par == {Tail(n) : n \in {m \in dotted : m[1] = ""}}
             sss == [s \in Hosts |-> {Tail(n) : n \in {m \in dotted : m[1] = s}}]
             st1 == [st EXCEPT !.cache[h] =
                        [k \in DOMAIN @ |-> IF k \in plain THEN NoVal ELSE @[k]]]
             st2 == IF par # {}
                    THEN clear_cache(st1, parent(h), TRUE, TRUE, par)
                    ELSE st1
         IN clear_each(st2, {s \in subsystems_of(h) : sss[s] # {}}, TRUE, TRUE, sss)
    ELSE LET st1 == [st EXCEPT !.cache[h] = [k \in DOMAIN @ |-> NoVal],
                               !.replaced = @ \cup {h}]
         IN IF subsystems
            THEN clear_each(st1, subsystems_of(h), TRUE, channels,
                            [s \in Hosts |-> {}])
            ELSE st1

FullCache == [h \in Hosts |-> [n \in FeatNames(h) |-> 1]]

\* A finished access is remembered until the next call on the driver.
Finished(t) == pc[t] \in {"done", "raised"}

Forget(frames) == [u \in Threads |-> IF Finished(u) THEN IdleFrame ELSE frames[u]]

ForgetPc == [u \in Threads |-> IF Finished(u) THEN "idle" ELSE pc[u]]

\* History helper: the entries a clear_cache call is aimed at.
Covered(h, subsystems, channels, features) ==
    LET st == clear_cache([cache |-> FullCache, replaced |-> {}],
                          h, subsystems, channels, features)
    IN {ft \in Feats : st.cache[ft[1]][ft[2]] = NoVal}

\* Effect of a clear_cache call on st = [cache, fr, hist]: the caches, the
\* aliases that running accesses hold on a replaced dict, and the history.
ApplyClear(st, h, subsystems, channels, features) ==
    LET r == clear_cache([cache |-> st.cache, replaced |-> {}],
                         h, subsystems, channels, features)
        cov == Covered(h, subsystems, channels, features)
    IN [cache |-> r.cache,
        fr |-> [u \in Threads |->
                  IF ~InPipeline(u) THEN st.fr[u]
                  ELSE [st.fr[u] EXCEPT
                          !.stale = @ \/ (st.fr[u].host \in r.replaced),
                          !.disturbed = @ \/ (<<st.fr[u].host, st.fr[u].name>> \in cov)]],
        hist |-> IF watch \in cov
                 THEN [st.hist EXCEPT !.wrote = NoVal, !.readv = NoVal]
                 ELSE st.hist]

\* ------------------------------------------------------------------- Init
InitHost ==
    /\ NoLimitsFeature
    /\ NoClassAssembly
    /\ NoComposer
    /\ NoChannels
    /\ NoScalars
    /\ cache = [h \in Hosts |-> [n \in FeatNames(h) |-> NoVal]]
    /\ lock = [h \in Hosts |-> FreeLock]
    /\ pc = [t \in Threads |-> "idle"]
    /\ fr = [t \in Threads |-> IdleFrame]
    /\ actor = NoThread
    /\ watch \in Feats
    /\ hist = [wrote |-> NoVal, set_calls |-> 0, readv |-> NoVal, last |-> NoVal,
               dis_any |-> FALSE, dis_run |-> FALSE]

\* One thread uses a driver of any of the declared classes.
Init ==
    /\ \E n \in 0..MaxRetries, d \in DiscardChoices, p \in BOOLEAN :
          feats = DriverClass(n, d, p)
    /\ \E b \in BOOLEAN : use_cache = [h \in Hosts |-> b]
    /\ live = {"t1"}
    /\ InitHost

\* Two threads share one driver (caching allowed, A declared with
\* retries=1 and discard=('ss.B',)).
InitConc ==
    /\ feats = DriverClass(1, DiscardB, FALSE)
    /\ use_cache = [h \in Hosts |-> TRUE]
    /\ live = Threads
    /\ InitHost

FeatOf(t) == feats[<<fr[t].host, fr[t].name>>]

\* History helper: the watched feature has a cache entry.
WatchedCached == cache[watch[1]][watch[2]] # NoVal

\* History helper: feature a is declared with a discard that names feature b.
Discards(a, b) ==
    LET d == feats[a].discard
    IN /\ d.has_features
       /\ d.features # {}
       /\ b \in Covered(a[1], TRUE, TRUE, d.features)

HasHook(stage, id) == InSeq(stage.names, id)

Bump(f, stage) == [f EXCEPT !.calls[stage] = @ + 1]

\* An exception leaves Feature._get / Feature._set: the with statement
\* releases the lock and the caller sees the exception.
Raise(t, f, e, stage) ==
    /\ pc' = [pc EXCEPT ![t] = "raised"]
    /\ fr' = [fr EXCEPT ![t] = [f EXCEPT !.exc = e, !.exc_stage = stage]]
    /\ lock' = Release(LockOf(f.host), t)
    /\ actor' = t
    /\ UNCHANGED <<live, watch, feats, use_cache, cache, hist>>

\* get_chain / set_chain, in the except clause: `if i != feat._retries`
\* decides between reopening the connection and re-raising.
\* `except driver.retries_exceptions:` catches these exceptions only.
caught_any(e) == TRUE

caught(e) == e \in retries_exceptions

get_retry_early(i, retries) == i + 1 # retries

get_retry(i, retries) == i # retries

set_retry(i, retries) == i # retries

\* set_chain: the value handed to feat.set is the pre_set output i_val.
set_arg_user(f) == f.value

set_arg(f) == f.i_val

\* Feature._get: if driver.use_cache: cache[name] = val, on the dict that
\* was bound to the local `cache` when the access began.
get_cache_update_none(c, f, uc) == c

get_cache_update(c, f, uc) ==
    IF uc /\ ~f.stale THEN [c EXCEPT ![f.host][f.name] = f.result] ELSE c

\* Feature._set: if driver.use_cache: cache[name] = value.
set_cache_update_i_val(c, f, uc) ==
    IF uc /\ ~f.stale THEN [c EXCEPT ![f.host][f.name] = f.i_val] ELSE c

set_cache_update(c, f, uc) ==
    IF uc /\ ~f.stale THEN [c EXCEPT ![f.host][f.name] = f.value] ELSE c

\* ------------------------------------------------------------ Feature._get
\* with driver.lock: cache = driver._cache; if name in cache: return it.
Feature_get(t, h, n) ==
    /\ ~InPipeline(t)
    /\ CanAcquire(LockOf(h), t)
    /\ LET f == [Frame("get", h, n, NoVal) EXCEPT
                    !.exp_r = IF watch = <<h, n>> THEN hist.readv ELSE NoVal,
                    !.exp_d = (watch = <<h, n>> /\ hist.dis_run)]
       IN IF cache[h][n] # NoVal
          THEN /\ pc' = [ForgetPc EXCEPT ![t] = "done"]
               /\ fr' = [Forget(fr) EXCEPT ![t] = [f EXCEPT !.hit = TRUE,
                                                            !.result = cache[h][n]]]
               /\ hist' = IF watch = <<h, n>>
                          THEN [hist EXCEPT !.readv = cache[h][n],
                                            !.last = cache[h][n],
                                            !.dis_any = FALSE, !.dis_run = FALSE]
                          ELSE hist
               /\ UNCHANGED lock
          ELSE /\ pc' = [ForgetPc EXCEPT ![t] = "pre_get"]
               /\ fr' = [Forget(fr) EXCEPT ![t] = f]
               /\ lock' = Acquire(LockOf(h), t)
               /\ UNCHANGED hist
    /\ actor' = t
    /\ UNCHANGED <<live, watch, feats, use_cache, cache>>

\* get_chain: feat.pre_get(driver).  The default method does nothing; a
\* checks hook asserts on driver state and may raise AssertionError.
get_chain_pre_get(t) ==
    /\ pc[t] = "pre_get"
    /\ LET f == Bump(fr[t], "pre_get")
       IN \E ok \in BOOLEAN :
            /\ ok \/ HasHook(FeatOf(t).pre_get, "checks")
            /\ IF ok
               THEN /\ pc' = [pc EXCEPT ![t] = "get"]
                    /\ fr' = [fr EXCEPT ![t] = [f EXCEPT !.i = -1]]
                    /\ actor' = t
                    /\ UNCHANGED <<live, watch, feats, use_cache, cache, lock, hist>>
               ELSE Raise(t, f, "AssertionError", "pre_get")

\* get_chain: one turn of the retry loop around feat.get(driver).
get_chain_get(t) ==
    /\ pc[t] = "get"
    /\ fr[t].i < FeatOf(t).retries
    /\ LET f == [Bump(fr[t], "get") EXCEPT !.i = @ + 1]
       IN \/ \E v \in Values :
                /\ pc' = [pc EXCEPT ![t] = "post_get"]
                /\ fr' = [fr EXCEPT ![t] = [f EXCEPT !.val = v]]
                /\ actor' = t
                /\ UNCHANGED <<live, watch, feats, use_cache, cache, lock, hist>>
          \/ \E e \in StageExceptions :
                IF caught(e) /\ get_retry(f.i, FeatOf(t).retries)
                THEN /\ fr' = [fr EXCEPT ![t] = [Bump(f, "reopen") EXCEPT !.retried = e]]
                     /\ actor' = t
                     /\ UNCHANGED <<live, watch, feats, use_cache, cache, lock, pc, hist>>
                ELSE Raise(t, f, e, "get")

\* get_chain: alt_val = feat.post_get(driver, val), then back in _get:
\* if driver.use_cache: cache[name] = val; the lock is released.
get_chain_post_get(t) ==
    /\ pc[t] = "post_get"
    /\ LET f == [Bump(fr[t], "post_get") EXCEPT !.result = fr[t].val]
           h == f.host
           ft == <<f.host, f.name>>
       IN /\ pc' = [pc EXCEPT ![t] = "done"]
          /\ fr' = [fr EXCEPT ![t] = f]
          /\ cache' = get_cache_update(cache, f, use_cache[h])
          /\ hist' = IF watch = ft
                     THEN [hist EXCEPT
                             !.readv = IF f.disturbed THEN NoVal ELSE f.result,
                             !.last = f.result,
                             !.dis_any = FALSE, !.dis_run = FALSE]
                     ELSE hist
          /\ lock' = Release(LockOf(h), t)
    /\ actor' = t
    /\ UNCHANGED <<live, watch, feats, use_cache>>

\* ------------------------------------------------------------ Feature._set
\* `if name in cache and value == cache[name]`: the write is skipped when
\* the cache already holds the value.
set_cached_never(c, name, value) == FALSE

set_cached(c, name, value) == c[name] # NoVal /\ value = c[name]

\* with driver.lock: if name in cache and value == cache[name]: return.
Feature_set(t, h, n, v) ==
    /\ ~InPipeline(t)
    /\ CanAcquire(LockOf(h), t)
    /\ LET f == [Frame("set", h, n, v) EXCEPT
                    !.exp_w = (watch = <<h, n>> /\ hist.wrote = v),
                    !.prior_set = IF watch = <<h, n>> /\ hist.wrote = v
                                  THEN hist.set_calls ELSE 0]
           dis == Discards(<<h, n>>, watch) /\ WatchedCached
       IN IF set_cached(cache[h], n, v)
          THEN /\ pc' = [ForgetPc EXCEPT ![t] = "done"]
               /\ fr' = [Forget(fr) EXCEPT ![t] = [f EXCEPT !.hit = TRUE]]
               /\ hist' = IF watch = <<h, n>>
                          THEN [hist EXCEPT !.wrote = v, !.set_calls = 0,
                                            !.readv = NoVal, !.last = v,
                                            !.dis_any = FALSE, !.dis_run = FALSE]
                          ELSE [hist EXCEPT !.dis_any = @ \/ dis]
               /\ UNCHANGED lock
          ELSE /\ pc' = [ForgetPc EXCEPT ![t] = "pre_set"]
               /\ fr' = [Forget(fr) EXCEPT ![t] = f]
               /\ hist' = IF watch = <<h, n>>
                          THEN [hist EXCEPT !.wrote = NoVal, !.set_calls = 0,
                                            !.readv = NoVal,
                                            !.dis_any = FALSE, !.dis_run = FALSE]
                          ELSE hist
               /\ lock' = Acquire(LockOf(h), t)
    /\ actor' = t
    /\ UNCHANGED <<live, watch, feats, use_cache, cache>>

\* What the pre_set slot returns for value v when no hook raises: the
\* default method returns v, the driver's _pre_set_A returns 2*v, a checks
\* hook returns v; a composer passes each hook's result to the next.
RECURSIVE pre_set_value(_, _)
pre_set_value(names, v) ==
    IF names = <<>> THEN v
    ELSE pre_set_value(Tail(names), IF Head(names) = "driver" THEN 2 * v ELSE v)

\* set_chain: i_val = feat.pre_set(driver, value).
set_chain_pre_set(t) ==
    /\ pc[t] = "pre_set"
    /\ LET f == Bump(fr[t], "pre_set")
           stage == FeatOf(t).pre_set
       IN \E ok \in BOOLEAN :
            /\ ok \/ HasHook(stage, "checks")
            /\ IF ok
               THEN /\ pc' = [pc EXCEPT ![t] = "set"]
                    /\ fr' = [fr EXCEPT ![t] =
                                [f EXCEPT !.i = -1,
                                          !.i_val = pre_set_value(stage.names, f.value)]]
                    /\ actor' = t
                    /\ UNCHANGED <<live, watch, feats, use_cache, cache, lock, hist>>
               ELSE Raise(t, f, "AssertionError", "pre_set")

\* set_chain: one turn of the retry loop around feat.set(driver, i_val).
set_chain_set(t) ==
    /\ pc[t] = "set"
    /\ fr[t].i < FeatOf(t).retries
    /\ LET f == [Bump(fr[t], "set") EXCEPT !.i = @ + 1,
                                            !.set_args = @ \cup {set_arg(fr[t])}]
       IN \/ \E r \in Responses :
                /\ pc' = [pc EXCEPT ![t] = "post_set"]
                /\ fr' = [fr EXCEPT ![t] = [f EXCEPT !.resp = r]]
                /\ actor' = t
                /\ UNCHANGED <<live, watch, feats, use_cache, cache, lock, hist>>
          \/ \E e \in StageExceptions :
                IF caught(e) /\ set_retry(f.i, FeatOf(t).retries)
                THEN /\ fr' = [fr EXCEPT ![t] = [Bump(f, "reopen") EXCEPT !.retried = e]]
                     /\ actor' = t
                     /\ UNCHANGED <<live, watch, feats, use_cache, cache, lock, pc, hist>>
                ELSE Raise(t, f, e, "set")

\* Feature.check_operation, on st = [cache, fr, hist, exc]: asks the
\* driver's default_check_operation (whose answer is res) and raises
\* LantzError when the answer is false.
check_operation_swapped(st, t, res) ==
    LET f == st.fr[t]
    IN [st EXCEPT
          !.fr[t] = [Bump(f, "check") EXCEPT
                       !.check_args = <<<<f.host, f.name>>, f.i_val, f.value, f.resp>>,
                       !.check_res = res],
          !.exc = IF res THEN "none" ELSE "LantzError"]

check_operation(st, t, res) ==
    LET f == st.fr[t]
    IN [st EXCEPT
          !.fr[t] = [Bump(f, "check") EXCEPT
                       !.check_args = <<<<f.host, f.name>>, f.value, f.i_val, f.resp>>,
                       !.check_res = res],
          !.exc = IF res THEN "none" ELSE "LantzError"]

\* Feature.discard_cache: driver.clear_cache(features=discard['features'])
\* when the discard declaration has a 'features' entry.
discard_cache_own_host(st, t) ==
    LET f == st.fr[t]
        d == feats[<<f.host, f.name>>].discard
        own == {n \in d.features : Len(n) = 1}
    IN IF d.has_features /\ own # {}
       THEN LET c == ApplyClear(st, f.host, TRUE, TRUE, own)
            IN [st EXCEPT !.cache = c.cache, !.fr = c.fr, !.hist = c.hist]
       ELSE st

discard_cache(st, t) ==
    LET f == st.fr[t]
        d == feats[<<f.host, f.name>>].discard
    IN IF d.has_features
       THEN LET c == ApplyClear(st, f.host, TRUE, TRUE, d.features)
            IN [st EXCEPT !.cache = c.cache, !.fr = c.fr, !.hist = c.hist]
       ELSE st

\* One hook of the post_set slot:
\*   post_set : Feature.post_set, which calls check_operation;
\*   discard  : Feature.discard_cache;
\*   driver   : the driver's _post_set_A, which does nothing.
post_set_hook(st, t, id, res) ==
    IF id = "post_set" THEN check_operation(st, t, res)
    ELSE IF id = "discard" THEN discard_cache(st, t)
    ELSE st

\* PostSetComposer.__call__ (or the call of the single bound method).
RECURSIVE post_set_run(_, _, _, _)
post_set_run(st, t, names, res) ==
    IF names = <<>> \/ st.exc # "none" THEN st
    ELSE post_set_run(post_set_hook(st, t, Head(names), res), t, Tail(names), res)

\* set_chain: feat.post_set(driver, value, i_val, resp), then back in _set:
\* if driver.use_cache: cache[name] = value; the lock is released.
set_chain_post_set(t) ==
    /\ pc[t] = "post_set"
    /\ \E res \in BOOLEAN :
         /\ res \/ HasHook(FeatOf(t).post_set, "post_set")
         /\ LET st0 == [cache |-> cache,
                        fr |-> [fr EXCEPT ![t] = Bump(fr[t], "post_set")],
                        hist |-> hist, exc |-> "none"]
                st == post_set_run(st0, t, FeatOf(t).post_set.names, res)
                f == st.fr[t]
                h == f.host
                ft == <<f.host, f.name>>
            IN IF st.exc # "none"
               THEN /\ pc' = [pc EXCEPT ![t] = "raised"]
                    /\ fr' = [st.fr EXCEPT ![t] = [f EXCEPT !.exc = st.exc,
                                                            !.exc_stage = "post_set"]]
                    /\ cache' = st.cache
                    /\ hist' = st.hist
               ELSE /\ pc' = [pc EXCEPT ![t] = "done"]
                    /\ fr' = st.fr
                    /\ cache' = set_cache_update(st.cache, f, use_cache[h])
                    /\ hist' = IF watch = ft
                               THEN [st.hist EXCEPT
                                       !.wrote = IF f.disturbed THEN NoVal ELSE f.value,
                                       !.set_calls = IF f.disturbed THEN 0 ELSE f.calls.set,
                                       !.last = f.value]
                               ELSE [st.hist EXCEPT
                                       !.dis_any = @ \/ (Discards(ft, watch) /\ WatchedCached),
                                       !.dis_run = @ \/ (Discards(ft, watch) /\ WatchedCached
                                                      /\ HasHook(feats[ft].post_set, "discard"))]
    /\ lock' = Release(LockOf(fr[t].host), t)
    /\ actor' = t
    /\ UNCHANGED <<live, watch, feats, use_cache>>

\* --------------------------------------------- clear_cache and Feature._del
\* Names a caller may pass to clear_cache on host h ({} stands for None).
ClearNames(h) ==
    IF h = "root"
    THEN {{}, {<<"A">>}, {<<"ss", "B">>}}
    ELSE {{}, {<<"B">>}, {<<"", "A">>}}

\* A thread calls driver.clear_cache(subsystems, channels, features).
HasFeatures_clear_cache(t, h, subsystems, channels, features) ==
    /\ ~InPipeline(t)
    /\ LET c == ApplyClear([cache |-> cache, fr |-> Forget(fr), hist |-> hist],
                           h, subsystems, channels, features)
       IN /\ cache' = c.cache
          /\ fr' = c.fr
          /\ hist' = c.hist
    /\ pc' = ForgetPc
    /\ actor' = t
    /\ UNCHANGED <<live, watch, feats, use_cache, lock>>

\* del driver.n : Feature._del calls driver.clear_cache(features=(name,)).
Feature_del(t, h, n) ==
    /\ ~InPipeline(t)
    /\ LET c == ApplyClear([cache |-> cache, fr |-> Forget(fr), hist |-> hist],
                           h, TRUE, TRUE, {<<n>>})
       IN /\ cache' = c.cache
          /\ fr' = c.fr
          /\ hist' = c.hist
    /\ pc' = ForgetPc
    /\ actor' = t
    /\ UNCHANGED <<live, watch, feats, use_cache, lock>>

\* ------------------------------------------------------------------- Next
Next ==
    /\ UNCHANGED <<limitsVars, classVars, composerVars, chanVars, scalarVars>>
    /\ \E t \in live :
        \/ \E h \in Hosts : \E n \in FeatNames(h) : Feature_get(t, h, n)
        \/ get_chain_pre_get(t)
        \/ get_chain_get(t)
        \/ get_chain_post_get(t)
        \/ \E h \in Hosts : \E n \in FeatNames(h) : \E v \in Values : Feature_set(t, h, n, v)
        \/ set_chain_pre_set(t)
        \/ set_chain_set(t)
        \/ set_chain_post_set(t)
        \/ \E h \in Hosts : \E fs \in ClearNames(h) :
              \E s \in (IF fs = {} THEN BOOLEAN ELSE {TRUE}) :
                  HasFeatures_clear_cache(t, h, s, TRUE, fs)
        \/ \E h \in Hosts : \E n \in FeatNames(h) : Feature_del(t, h, n)

Spec == Init /\ [][Next]_vars

SpecConc == InitConc /\ [][Next]_vars

\* ================================================================= claims
FrameFeat(f) == feats[<<f.host, f.name>>]

Retryable(f, stage) == f.exc_stage = stage /\ f.exc \in retries_exceptions

\* C1: for a feature with retries = N whose read stage raises a retryable
\* exception on every call, one read invokes the read stage exactly N+1
\* times and reopen_connection exactly N times, then the exception reaches
\* the caller; post_get is not run and the cache gets no entry.
C1_ReadRetriesExhausted ==
    \A t \in Threads :
        /\ pc[t] = "get" =>
              /\ fr[t].calls.get = fr[t].calls.reopen
              /\ fr[t].calls.get <= FrameFeat(fr[t]).retries
        /\ (pc[t] = "raised" /\ fr[t].op = "get" /\ Retryable(fr[t], "get")) =>
              /\ fr[t].calls.get = FrameFeat(fr[t]).retries + 1
              /\ fr[t].calls.reopen = FrameFeat(fr[t]).retries
              /\ fr[t].calls.post_get = 0
              /\ fr[t].result = NoVal
              /\ cache[fr[t].host][fr[t].name] = NoVal

C1_Witness ==
    \E t \in Threads :
        /\ pc[t] = "raised" /\ fr[t].op = "get" /\ Retryable(fr[t], "get")
        /\ FrameFeat(fr[t]).retries = MaxRetries
        /\ fr[t].calls.get = MaxRetries + 1
        /\ fr[t].calls.reopen = MaxRetries

\* C2: for a feature with retries = N whose write stage raises a retryable
\* exception on every call, one write runs pre_set once, invokes the write
\* stage exactly N+1 times with the same transformed value, calls
\* reopen_connection exactly N times, then the exception reaches the caller;
\* post_set is not run.
C2_WriteRetriesExhausted ==
    \A t \in Threads :
        /\ pc[t] = "set" =>
              /\ fr[t].calls.set = fr[t].calls.reopen
              /\ fr[t].calls.set <= FrameFeat(fr[t]).retries
        /\ (pc[t] = "raised" /\ fr[t].op = "set" /\ Retryable(fr[t], "set")) =>
              /\ fr[t].calls.pre_set = 1
              /\ fr[t].calls.set = FrameFeat(fr[t]).retries + 1
              /\ fr[t].set_args =
                    {pre_set_value(FrameFeat(fr[t]).pre_set.names, fr[t].value)}
              /\ fr[t].calls.reopen = FrameFeat(fr[t]).retries
              /\ fr[t].calls.post_set = 0
              /\ fr[t].calls.check = 0

C2_Witness ==
    \E t \in Threads :
        /\ pc[t] = "raised" /\ fr[t].op = "set" /\ Retryable(fr[t], "set")
        /\ fr[t].name = "A"
        /\ FrameFeat(fr[t]).retries = MaxRetries
        /\ fr[t].calls.set = MaxRetries + 1
        /\ fr[t].set_args = {2 * fr[t].value}

\* A second write of the value the watched feature was last written with,
\* with caching enabled and no clear or discard of the feature since the
\* first write began.
SecondWrite(t) ==
    /\ Finished(t)
    /\ fr[t].op = "set"
    /\ fr[t].exp_w
    /\ use_cache[fr[t].host]

\* C3 as stated: with caching enabled, writing v and then v again, with no
\* clear or discard of the attribute in between, invokes the write stage
\* exactly once in total.
C3_ExactlyOneWriteStage ==
    \A t \in Threads :
        SecondWrite(t) => fr[t].prior_set + fr[t].calls.set = 1

\* C3 as amended: the second write runs no pipeline stage and no host
\* communication, so only the first write invokes the write stage: not at
\* all when v was already the cached value, otherwise once plus once per
\* reopened connection.
C3_SecondWriteSkipped ==
    \A t \in Threads :
        /\ SecondWrite(t) =>
              /\ pc[t] = "done"
              /\ fr[t].hit
              /\ fr[t].calls = NoCalls
              /\ fr[t].set_args = {}
              /\ fr[t].check_args = <<>>
        /\ (pc[t] = "done" /\ fr[t].op = "set") =>
              IF fr[t].hit THEN fr[t].calls.set = 0
              ELSE fr[t].calls.set = fr[t].calls.reopen + 1

C3_Witness ==
    \E t \in Threads :
        /\ SecondWrite(t)
        /\ fr[t].hit
        /\ fr[t].prior_set = 1

\* C4: with caching enabled, once a read of n has succeeded, every further
\* read of n with no write, clear or discard of n in between returns the
\* same value and invokes no pipeline stage and no host communication.
C4_ReadServedFromCache ==
    \A t \in Threads :
        (Finished(t) /\ fr[t].op = "get" /\ fr[t].exp_r # NoVal
            /\ use_cache[fr[t].host]) =>
              /\ pc[t] = "done"
              /\ fr[t].hit
              /\ fr[t].result = fr[t].exp_r
              /\ fr[t].calls = NoCalls

C4_Witness ==
    \E t \in Threads :
        /\ pc[t] = "done" /\ fr[t].op = "get" /\ fr[t].hit
        /\ fr[t].exp_r # NoVal
        /\ fr[t].result = fr[t].exp_r

\* C5: whenever the cache holds an entry for attribute n, the entry is the
\* value of the most recent successfully completed write of n or the result
\* of the most recent successful read of n, whichever is later; an access
\* that raises never changes the entry.
C5_EntryIsLast == WatchedCached => cache[watch[1]][watch[2]] = hist.last

C5_NoChangeUnlessDone ==
    \A t \in Threads :
        (InPipeline(t) /\ actor' = t /\ pc'[t] # "done") =>
            cache'[fr[t].host][fr[t].name] = cache[fr[t].host][fr[t].name]

C5_CacheConsistent == []C5_EntryIsLast /\ [][C5_NoChangeUnlessDone]_vars

C5_Witness ==
    \E t \in Threads :
        /\ pc[t] = "raised" /\ fr[t].op = "set" /\ fr[t].exc_stage = "post_set"
        /\ watch = <<fr[t].host, fr[t].name>>
        /\ WatchedCached
        /\ hist.last # fr[t].value

WriteStageDone(t) ==
    /\ Finished(t)
    /\ fr[t].op = "set"
    /\ fr[t].calls.post_set = 1
    /\ ~HasHook(FrameFeat(fr[t]).post_set, "driver")

\* C7: for a feature with no discard and no override of post_set, a write
\* whose write stage succeeds calls default_check_operation exactly once
\* with (feature, user value, transformed value, response) and raises
\* LantzError when the answer is false; the value is then not cached.
C7_DefaultCheckOperation ==
    \A t \in Threads :
        (WriteStageDone(t) /\ ~FrameFeat(fr[t]).discard.given) =>
            /\ fr[t].calls.check = 1
            /\ fr[t].resp \in Responses
            /\ fr[t].check_args =
                  << <<fr[t].host, fr[t].name>>, fr[t].value,
                     pre_set_value(FrameFeat(fr[t]).pre_set.names, fr[t].value),
                     fr[t].resp >>
            /\ fr[t].check_res => pc[t] = "done"
            /\ ~fr[t].check_res =>
                  /\ pc[t] = "raised"
                  /\ fr[t].exc = "LantzError"
                  /\ cache[fr[t].host][fr[t].name] # fr[t].value

C7_Witness ==
    \E t \in Threads :
        /\ WriteStageDone(t) /\ ~FrameFeat(fr[t]).discard.given
        /\ fr[t].name = "A"
        /\ pc[t] = "raised" /\ fr[t].exc = "LantzError"
        /\ fr[t].check_args[2] # fr[t].check_args[3]

\* C8: for a feature declared with discard whose post_set the driver does
\* not override, a write still calls default_check_operation after the
\* write stage and raises when it reports failure.
C8_CheckKeptWithDiscard ==
    \A t \in Threads :
        (WriteStageDone(t) /\ FrameFeat(fr[t]).discard.given) =>
            /\ fr[t].calls.check = 1
            /\ ~fr[t].check_res => pc[t] = "raised"

\* C9: the pipeline invocations of two threads on one root host and its
\* sub-containers never overlap: from the cache check to the cache update
\* only the thread holding the root's lock executes.
C9_PipelinesExclusive ==
    \A t \in Threads :
        InPipeline(t) =>
            /\ lock["root"].owner = t
            /\ \A u \in Threads : InPipeline(u) => u = t

C9_Witness ==
    \E t \in Threads :
        /\ InPipeline(t)
        /\ fr[t].host = "ss"
        /\ lock["root"].owner = t
        /\ actor \in Threads \ {t}

\* C10: every mutation of a host's cache (by a read, a write, a delete or a
\* clear_cache of any thread) happens while the mutating thread holds the
\* root's lock, so the cache is not changed or replaced while another
\* thread is between its cache check and its cache update.
C10_CacheMutatedUnderLock ==
    [][(\/ cache' # cache
        \/ \E u \in Threads : InPipeline(u) /\ fr'[u].stale /\ ~fr[u].stale)
          => lock["root"].owner = actor']_vars

\* ======================================================== LimitsValidated
(***************************************************************************)
(* Two drivers d1 and d2 of one class, each with its own lock:             *)
(*                                                                         *)
(*   class Driver(BaseDriver):                                             *)
(*       i = LimitsValidated(setter=True, limits='test')                   *)
(*       def _limits_test(self): return IntLimitsValidator(max=self.max)   *)
(*                                                                         *)
(* with caching disabled.  A limits validator is modelled by its maximum.  *)
(***************************************************************************)
Drivers == {"d1", "d2"}

\* Driver._limits_test: the limits a driver provides depend on the driver.
limits_test(d) == IF d = "d1" THEN 1 ELSE MaxVal

\* HasFeatures.get_limits, on the _limits_cache of all drivers.
get_limits(c, d) == IF c[d] = NoVal THEN [c EXCEPT ![d] = limits_test(d)] ELSE c

\* IntLimitsValidator.validate
validate(lim, value) == value <= lim

LimFrame(d, v) == [host |-> d, value |-> v, used |-> NoVal, exc |-> "none"]

pipelineRest == <<feats, use_cache, cache, watch, hist>>

InitLimits ==
    /\ feats = <<>>
    /\ use_cache = [d \in Drivers |-> FALSE]
    /\ cache = [d \in Drivers |-> <<>>]
    /\ watch = <<>>
    /\ hist = <<>>
    /\ lock = [d \in Drivers |-> FreeLock]
    /\ pc = [t \in Threads |-> "idle"]
    /\ fr = [t \in Threads |-> LimFrame(NoHost, NoVal)]
    /\ live = Threads
    /\ actor = NoThread
    /\ limits = NoVal
    /\ limits_cache = [d \in Drivers |-> NoVal]
    /\ NoClassAssembly
    /\ NoComposer
    /\ NoChannels
    /\ NoScalars

\* Feature._set on driver d: take the driver's lock and enter set_chain.
LimitsValidated_set(t, d, v) ==
    /\ pc[t] \in {"idle", "done", "raised"}
    /\ CanAcquire(d, t)
    /\ lock' = Acquire(d, t)
    /\ pc' = [pc EXCEPT ![t] = "pre_set"]
    /\ fr' = [fr EXCEPT ![t] = LimFrame(d, v)]
    /\ actor' = t
    /\ UNCHANGED <<live, limitsVars, pipelineRest>>

\* get_limits_and_validate: self.limits = driver.get_limits(self.limits_id)
get_limits_and_validate(t) ==
    /\ pc[t] = "pre_set"
    /\ limits_cache' = get_limits(limits_cache, fr[t].host)
    /\ limits' = limits_cache'[fr[t].host]
    /\ pc' = [pc EXCEPT ![t] = "validate"]
    /\ actor' = t
    /\ UNCHANGED <<lock, fr, live, pipelineRest>>

\* validate_limits: validate_limits(driver, value, self.limits, self.name)
validate_limits(t) ==
    /\ pc[t] = "validate"
    /\ IF validate(limits, fr[t].value)
       THEN /\ pc' = [pc EXCEPT ![t] = "set"]
            /\ fr' = [fr EXCEPT ![t].used = limits]
            /\ UNCHANGED lock
       ELSE /\ pc' = [pc EXCEPT ![t] = "raised"]
            /\ fr' = [fr EXCEPT ![t].used = limits, ![t].exc = "ValueError"]
            /\ lock' = Release(fr[t].host, t)
    /\ actor' = t
    /\ UNCHANGED <<live, limitsVars, pipelineRest>>

\* The rest of set_chain: the write stage and post_set, then the lock is
\* released.
limits_set_chain_set(t) ==
    /\ pc[t] = "set"
    /\ pc' = [pc EXCEPT ![t] = "done"]
    /\ lock' = Release(fr[t].host, t)
    /\ actor' = t
    /\ UNCHANGED <<fr, live, limitsVars, pipelineRest>>

NextLimits ==
    /\ UNCHANGED <<classVars, composerVars, chanVars, scalarVars>>
    /\ \E t \in live :
        \/ \E d \in Drivers : \E v \in Values : LimitsValidated_set(t, d, v)
        \/ get_limits_and_validate(t)
        \/ validate_limits(t)
        \/ limits_set_chain_set(t)

SpecLimits == InitLimits /\ [][NextLimits]_vars

\* C11: a write of an attribute validated against a named, host-provided
\* limit is checked against the limits of the host being written, never
\* against the limits of another host of the same class.
C11_ValidatedAgainstOwnLimits ==
    \A t \in Threads :
        (limits_cache # <<>> /\ pc[t] \in {"set", "done", "raised"}) =>
            fr[t].used = limits_test(fr[t].host)

\* ======================================================== MethodsComposer
\* A composer is a record with the parallel lists names (_names) and
\* methods (_methods).  An operation returns the composer it leaves behind
\* and the exception it raised, if any.
EmptyComposer == [composer |-> TRUE, names |-> <<>>, methods |-> <<>>]

InsertAt(s, i, x) == SubSeq(s, 1, i - 1) \o <<x>> \o SubSeq(s, i, Len(s))

Returned(c) == [c |-> c, exc |-> "none"]

Raised(c, e) == [c |-> c, exc |-> e]

MethodsComposer_keep_duplicate(c, name) == c

MethodsComposer_remove_duplicate(c, name) ==
    IF InSeq(c.names, name)
    THEN LET i == IndexOf(c.names, name)
         IN [c EXCEPT !.names = RemoveAt(@, i), !.methods = RemoveAt(@, i)]
    ELSE c

MethodsComposer_prepend(c, name, method) ==
    LET d == MethodsComposer_remove_duplicate(c, name)
    IN Returned([d EXCEPT !.names = <<name>> \o @,
                          !.methods = <<method>> \o @])

MethodsComposer_append(c, name, method) ==
    LET d == MethodsComposer_remove_duplicate(c, name)
    IN Returned([d EXCEPT !.names = Append(@, name),
                          !.methods = Append(@, method)])

MethodsComposer_add_after(c, anchor, name, method) ==
    LET d == MethodsComposer_remove_duplicate(c, name)
    IN IF ~InSeq(d.names, anchor) THEN Raised(d, "ValueError")
       ELSE LET i == IndexOf(d.names, anchor)
            IN Returned([d EXCEPT !.names = InsertAt(@, i + 1, name),
                                  !.methods = InsertAt(@, i + 1, method)])

MethodsComposer_add_before_behind(c, anchor, name, method) ==
    LET d == MethodsComposer_remove_duplicate(c, name)
    IN IF ~InSeq(d.names, anchor) THEN Raised(d, "ValueError")
       ELSE LET i == IndexOf(d.names, anchor)
            IN Returned([d EXCEPT !.names = InsertAt(@, i + 1, name),
                                  !.methods = InsertAt(@, i + 1, method)])

MethodsComposer_add_before(c, anchor, name, method) ==
    LET d == MethodsComposer_remove_duplicate(c, name)
    IN IF ~InSeq(d.names, anchor) THEN Raised(d, "ValueError")
       ELSE LET i == IndexOf(d.names, anchor)
            IN Returned([d EXCEPT !.names = InsertAt(@, i, name),
                                  !.methods = InsertAt(@, i, method)])

MethodsComposer_replace(c, name, method) ==
    IF ~InSeq(c.names, name) THEN Raised(c, "ValueError")
    ELSE Returned([c EXCEPT !.methods[IndexOf(c.names, name)] = method])

MethodsComposer_remove(c, name) ==
    IF ~InSeq(c.names, name) THEN Raised(c, "ValueError")
    ELSE LET i == IndexOf(c.names, name)
         IN Returned([c EXCEPT !.names = RemoveAt(@, i),
                               !.methods = RemoveAt(@, i)])

MethodsComposer_reset(c) == Returned([c EXCEPT !.names = <<>>, !.methods = <<>>])

\* ========================================================= class assembly
(***************************************************************************)
(* The classes of one module, assembled in the order they are written:     *)
(*                                                                         *)
(*   class Base(DummyParent):                                              *)
(*       n = Feature(True, True, checks='...', discard=('m',))             *)
(*   class S1(Base): ...                                                   *)
(*   class S2(Base): ...                                                   *)
(*   class D(S2): ...                                                      *)
(*                                                                         *)
(* The body of a class holds at most one override method for n (_get_n,    *)
(* _pre_get_n or _post_set_n, bare or decorated with append or prepend)    *)
(* and, in a subclass, at most one placeholder n = set_feat(...).          *)
(* A hook function is named <<class, stage>> after the class body that     *)
(* defines it, or <<"Feature", method>> for a method of Feature.           *)
(***************************************************************************)
ClassOrder == <<"Base", "S1", "S2", "D">>

ClassNames == {ClassOrder[i] : i \in 1..Len(ClassOrder)}

NoClass == "object"

ClassParent(c) ==
    IF c = "Base" THEN NoClass ELSE IF c = "D" THEN "S2" ELSE "Base"

\* CUSTOMIZABLE: the stages, in the order customize_feats goes through them.
Stages == <<"pre_get", "get", "post_get", "pre_set", "set", "post_set">>

StageSet == {Stages[i] : i \in 1..Len(Stages)}

AttrNames == {"n", ""}

NoObj == 0

NoFn == <<>>

\* A stage attribute that is a plain bound method.
BoundMethod(fn) == [composer |-> FALSE, names |-> <<>>, methods |-> <<fn>>]

\* Entries of Feature._customs: absent, a method, or a reference to an
\* OrderedDict of (id, method, operation).
NoCustom == [kind |-> "absent", m |-> NoFn, ref |-> 0]

CustomMethod(m) == [kind |-> "method", m |-> m, ref |-> 0]

CustomDict(r) == [kind |-> "odict", m |-> NoFn, ref |-> r]

\* A Python statement evaluates its right-hand side once and binds a name
\* to the result: Body is applied to the value of `value`.
With(value, Body(_)) == CHOOSE r \in {Body(x) : x \in {value}} : TRUE

\* OrderedDict.__setitem__: a known key keeps its position.
OrderedDict_set(od, entry) ==
    IF \E i \in 1..Len(od) : od[i].id = entry.id
    THEN [i \in 1..Len(od) |-> IF od[i].id = entry.id THEN entry ELSE od[i]]
    ELSE Append(od, entry)

\* Feature.modify_behavior on object f of st = [heap, logs], for the
\* operations append and prepend.
Feature_modify_behavior(state, f, method_name, m, specifiers, internal) ==
    With(state, LAMBDA st :
        IF method_name \in {"get", "set"} \/ specifiers = <<>>
        THEN [st EXCEPT !.heap[f].slots[method_name] = BoundMethod(m),
                        !.heap[f].customs[method_name] =
                            IF internal THEN @ ELSE CustomMethod(m)]
        ELSE LET slot == st.heap[f].slots[method_name]
                 cust == st.heap[f].customs[method_name]
                 composer0 == IF slot.composer THEN slot ELSE EmptyComposer
                 composer1 == IF ~internal /\ cust.kind = "method"
                              THEN MethodsComposer_prepend(composer0, "old", cust.m).c
                              ELSE composer0
                 logs1 == IF internal \/ cust.kind = "odict" THEN st.logs
                          ELSE IF cust.kind = "absent" THEN Append(st.logs, <<>>)
                          ELSE Append(st.logs, <<[id |-> "old", m |-> cust.m,
                                                  op |-> "prepend"]>>)
                 ref == IF cust.kind = "odict" THEN cust.ref ELSE Len(logs1)
                 composer2 == IF specifiers[2] = "prepend"
                              THEN MethodsComposer_prepend(composer1, specifiers[1], m).c
                              ELSE MethodsComposer_append(composer1, specifiers[1], m).c
                 logs2 == IF internal THEN logs1
                          ELSE [logs1 EXCEPT ![ref] =
                                  OrderedDict_set(@, [id |-> specifiers[1], m |-> m,
                                                      op |-> specifiers[2]])]
             IN [heap |-> [st.heap EXCEPT
                             ![f].slots[method_name] = composer2,
                             ![f].customs[method_name] =
                                 IF internal THEN @ ELSE CustomDict(ref)],
                 logs |-> logs2])

\* Feature.__init__ with kwargs = [retries, checks, discard].
Feature_init(kwargs) ==
    LET o == [name |-> "",
              kwargs |-> kwargs,
              retries |-> kwargs.retries,
              slots |-> [s \in StageSet |-> BoundMethod(<<"Feature", s>>)],
              customs |-> [s \in StageSet |-> NoCustom]]
        st0 == [heap |-> <<o>>, logs |-> <<>>]
        st1 == IF kwargs.checks
               THEN Feature_modify_behavior(
                      Feature_modify_behavior(st0, 1, "pre_get",
                          <<"Feature", "get_check">>, <<"checks", "prepend">>, TRUE),
                      1, "pre_set",
                      <<"Feature", "set_check">>, <<"checks", "prepend">>, TRUE)
               ELSE st0
        st2 == IF kwargs.discard
               THEN Feature_modify_behavior(st1, 1, "post_set",
                        <<"Feature", "discard_cache">>, <<"discard", "append">>, TRUE)
               ELSE st1
    IN st2.heap[1]

\* Feature.clone: a new object with a copy of every attribute; composers
\* are cloned, dicts are copied one level deep, so the OrderedDicts inside
\* _customs are the very objects of the original.
Feature_clone(st, f) ==
    With(st.heap[f], LAMBDA o :
        LET p == [name |-> o.name,
                  kwargs |-> o.kwargs,
                  retries |-> o.retries,
                  slots |-> [s \in StageSet |->
                                [composer |-> o.slots[s].composer,
                                 names |-> o.slots[s].names,
                                 methods |-> o.slots[s].methods]],
                  customs |-> [s \in StageSet |-> o.customs[s]]]
        IN [heap |-> Append(st.heap, p), logs |-> st.logs])

\* Feature.copy_custom_behaviors, for logs of append and prepend entries.
RECURSIVE copy_modifiers(_, _, _, _)
copy_modifiers(st, new, meth_name, modifiers) ==
    IF modifiers = <<>> THEN st
    ELSE With(Feature_modify_behavior(st, new, meth_name, Head(modifiers).m,
                                      <<Head(modifiers).id, Head(modifiers).op>>,
                                      FALSE),
              LAMBDA st1 : copy_modifiers(st1, new, meth_name, Tail(modifiers)))

RECURSIVE copy_custom_behaviors(_, _, _, _)
copy_custom_behaviors(st, new, feat, i) ==
    IF i > Len(Stages) THEN st
    ELSE LET cust == feat.customs[Stages[i]]
         IN With(IF cust.kind = "method"
                 THEN Feature_modify_behavior(st, new, Stages[i], cust.m,
                                              <<>>, FALSE)
                 ELSE IF cust.kind = "odict"
                 THEN copy_modifiers(st, new, Stages[i], st.logs[cust.ref])
                 ELSE st,
                 LAMBDA st1 : copy_custom_behaviors(st1, new, feat, i + 1))

\* The keyword arguments of a set_feat placeholder.
NoSetFeat == [given |-> FALSE, has_retries |-> FALSE, retries |-> 0,
              has_checks |-> FALSE, checks |-> FALSE]

SetFeatRetries == [NoSetFeat EXCEPT !.given = TRUE, !.has_retries = TRUE,
                                    !.retries = 1]

SetFeatNoChecks == [NoSetFeat EXCEPT !.given = TRUE, !.has_checks = TRUE]

\* kwargs.update(self.custom_attrs)
update_kwargs(kwargs, custom_attrs) ==
    [kwargs EXCEPT
        !.retries = IF custom_attrs.has_retries THEN custom_attrs.retries ELSE @,
        !.checks = IF custom_attrs.has_checks THEN custom_attrs.checks ELSE @]

\* set_feat.customize: the new feature is the last object of the heap.
set_feat_customize(st, f, custom_attrs) ==
    With(st.heap[f], LAMBDA feat :
        With(Feature_init(update_kwargs(feat.kwargs, custom_attrs)), LAMBDA new :
            copy_custom_behaviors([st EXCEPT !.heap = Append(@, new)],
                                  Len(st.heap) + 1, feat, 1)))

\* The override method of a class body and its _composing annotation.
NoOverride == [given |-> FALSE, stage |-> "none", composing |-> <<>>]

Override(stage, composing) ==
    [given |-> TRUE, stage |-> stage, composing |-> composing]

OverrideChoices ==
    {NoOverride, Override("get", <<>>)} \cup
    {Override(s, c) : s \in {"pre_get", "post_set"},
                      c \in {<<>>, <<"custom", "append">>, <<"b", "prepend">>}}

NoFeature == [given |-> FALSE, retries |-> 0, checks |-> FALSE, discard |-> FALSE]

DeclaredFeature == [given |-> TRUE, retries |-> 0, checks |-> TRUE, discard |-> TRUE]

\* What the body of class c may hold.
ClassBodies(c) ==
    IF c = "Base"
    THEN {[feature |-> DeclaredFeature, set_feat |-> NoSetFeat, override |-> o] :
            o \in OverrideChoices}
    ELSE {[feature |-> NoFeature, set_feat |-> p, override |-> o] :
            p \in {NoSetFeat, SetFeatRetries, SetFeatNoChecks},
            o \in OverrideChoices}

UndefinedClass ==
    [defined |-> FALSE,
     feats |-> [a \in AttrNames |-> NoObj],
     attrs |-> [a \in AttrNames |-> NoObj],
     body |-> [feature |-> NoFeature, set_feat |-> NoSetFeat, override |-> NoOverride],
     src |-> NoObj, src_customs |-> [s \in StageSet |-> <<>>],
     rebuilt |-> NoObj, customized |-> NoObj]

\* base_feats: the __feats__ of the bases, most derived last.
RECURSIVE base_feats(_, _)
base_feats(cl, c) ==
    IF c = NoClass THEN [a \in AttrNames |-> NoObj]
    ELSE LET up == base_feats(cl, ClassParent(c))
         IN [a \in AttrNames |->
               IF cl[c].feats[a] # NoObj THEN cl[c].feats[a] ELSE up[a]]

\* clone_if_needed: `if feat.name not in owned_feats`
clone_needed_never(name, owned_feats) == FALSE

clone_needed(name, owned_feats) == name \notin owned_feats

\* The log of each stage of a feature, with the OrderedDicts looked up.
CustomsOf(st, f) ==
    [s \in StageSet |->
        LET cust == st.heap[f].customs[s]
        IN IF cust.kind = "odict" THEN st.logs[cust.ref]
           ELSE IF cust.kind = "method"
           THEN <<[id |-> "", m |-> cust.m, op |-> "method"]>>
           ELSE <<>>]

\* HasFeaturesMeta.__new__ for class `name` with the given body, on
\* st = [heap, logs] and the classes cl: the new state and the class.
HasFeaturesMeta_new(st, cl, name, body) ==
    LET declared == body.feature.given
        kwargs == [retries |-> body.feature.retries,
                   checks |-> body.feature.checks,
                   discard |-> body.feature.discard]
        sf == body.set_feat.given
        ov == body.override.given
    IN
    With(IF declared
         THEN [st EXCEPT !.heap =
                  Append(@, [Feature_init(kwargs) EXCEPT !.name = "n"])]
         ELSE st, LAMBDA st0 :
    With([a \in AttrNames |->
            IF declared /\ a = "n" THEN Len(st0.heap) ELSE NoObj], LAMBDA feats0 :
    With(base_feats(cl, ClassParent(name)), LAMBDA inherited :
    With([a \in AttrNames |->
            IF feats0[a] # NoObj THEN feats0[a] ELSE inherited[a]], LAMBDA all0 :
    \* set_feat placeholders
    With(IF sf THEN set_feat_customize(st0, all0["n"], body.set_feat)
         ELSE st0, LAMBDA st1 :
    LET owned0 == {a \in AttrNames : feats0[a] # NoObj}
        new == Len(st1.heap)
        owned1 == IF sf THEN owned0 \cup {"n"} ELSE owned0
        all1 == IF sf THEN [all0 EXCEPT !["n"] = new] ELSE all0
        attrs1 == IF sf THEN [feats0 EXCEPT !["n"] = new] ELSE feats0
        \* override methods: customize_feats and clone_if_needed
        target == all1["n"]
        tname == st1.heap[target].name
        cloned == ov /\ clone_needed(tname, owned1)
    IN
    With(IF cloned THEN Feature_clone(st1, target) ELSE st1, LAMBDA st2 :
    LET feat == IF cloned THEN Len(st2.heap) ELSE target
        feats2 == IF cloned THEN [feats0 EXCEPT ![tname] = feat] ELSE feats0
        attrs2 == IF cloned THEN [attrs1 EXCEPT ![tname] = feat] ELSE attrs1
    IN
    With(IF ov
         THEN Feature_modify_behavior(st2, feat, body.override.stage,
                  <<name, body.override.stage>>,
                  body.override.composing, FALSE)
         ELSE st2, LAMBDA st3 :
    [heap |-> st3.heap,
     logs |-> st3.logs,
     cls |-> [defined |-> TRUE,
              feats |-> feats2,
              attrs |-> attrs2,
              body |-> body,
              src |-> IF sf THEN all0["n"] ELSE NoObj,
              src_customs |-> IF sf THEN CustomsOf(st0, all0["n"])
                              ELSE [s \in StageSet |-> <<>>],
              rebuilt |-> IF sf THEN new ELSE NoObj,
              customized |-> IF ov THEN feat ELSE NoObj]])))))))

InitClass ==
    /\ heap = <<>>
    /\ logs = <<>>
    /\ classes = [c \in ClassNames |-> UndefinedClass]
    /\ NoLimitsFeature
    /\ NoComposer
    /\ NoChannels
    /\ NoScalars
    /\ feats = <<>>
    /\ use_cache = <<>>
    /\ cache = <<>>
    /\ lock = <<>>
    /\ pc = <<>>
    /\ fr = <<>>
    /\ live = {}
    /\ actor = NoThread
    /\ watch = <<>>
    /\ hist = <<>>

\* The class statement of the i-th class of the module is executed.
DefineClass(i, body) ==
    /\ ~classes[ClassOrder[i]].defined
    /\ \A j \in 1..(i - 1) : classes[ClassOrder[j]].defined
    /\ \E r \in {HasFeaturesMeta_new([heap |-> heap, logs |-> logs], classes,
                                      ClassOrder[i], body)} :
          /\ heap' = r.heap
          /\ logs' = r.logs
          /\ classes' = [classes EXCEPT ![ClassOrder[i]] = r.cls]
    /\ UNCHANGED <<feats, use_cache, cache, lock, pc, fr, live, actor, watch,
                   hist, limitsVars, composerVars, chanVars, scalarVars>>

NextClass ==
    \E i \in 1..Len(ClassOrder) : \E body \in ClassBodies(ClassOrder[i]) :
        DefineClass(i, body)

SpecClass == InitClass /\ [][NextClass]_vars

\* The descriptor an instance of class c finds under a name: the class
\* dicts are searched along the mro.
RECURSIVE ClassAttr(_, _, _)
ClassAttr(cl, c, a) ==
    IF c = NoClass THEN NoObj
    ELSE IF cl[c].defined /\ cl[c].attrs[a] # NoObj THEN cl[c].attrs[a]
    ELSE ClassAttr(cl, ClassParent(c), a)

\* The classes defined so far.
Defined == {c \in ClassNames : classes[c].defined}

\* Class c is defined by the step.
Defines(c) == ~classes[c].defined /\ classes'[c].defined

\* C12: after a subclass applies an override method to an inherited
\* attribute, the attribute object of the subclass is not the object of any
\* class defined before, and every class defined before still finds the
\* same object, with the same stages, retries and arguments.
C12_BaseUntouched ==
    [][\A c \in ClassNames :
          (Defines(c) /\ classes'[c].body.override.given
                      /\ ~classes'[c].body.feature.given) =>
              /\ \A b \in Defined :
                    classes'[c].customized # ClassAttr(classes, b, "n")
              /\ \A b \in Defined :
                    LET o == ClassAttr(classes, b, "n")
                    IN /\ ClassAttr(classes', b, "n") = o
                       /\ heap'[o].slots = heap[o].slots
                       /\ heap'[o].retries = heap[o].retries
                       /\ heap'[o].kwargs = heap[o].kwargs]_vars

C12_Witness ==
    /\ classes["S1"].defined
    /\ classes["S1"].body.override.given
    /\ ~classes["S1"].body.set_feat.given
    /\ heap[ClassAttr(classes, "S1", "n")].slots
         # heap[ClassAttr(classes, "Base", "n")].slots

\* The hooks reachable from class c: its own, those of its ancestors and
\* those of Feature.
RECURSIVE Ancestry(_)
Ancestry(c) == IF c = NoClass THEN {"Feature"} ELSE {c} \cup Ancestry(ClassParent(c))

HooksOf(o) ==
    UNION {{o.slots[s].methods[i][1] : i \in 1..Len(o.slots[s].methods)} :
            s \in StageSet}

\* C13: assembling a subclass leaves the customization log of the
\* attribute of every class defined before unchanged, and the attribute
\* a class ends up with only runs hooks of Feature, of the class itself and
\* of its ancestors, never the hook of a sibling.
C13_BaseLogUnchanged ==
    /\ [](\A c \in Defined :
            HooksOf(heap[ClassAttr(classes, c, "n")]) \subseteq Ancestry(c))
    /\ [][\A b \in Defined :
            LET o == ClassAttr(classes, b, "n")
            IN CustomsOf([heap |-> heap', logs |-> logs'], o)
                 = CustomsOf([heap |-> heap, logs |-> logs], o)]_vars

\* C14: a class D that customizes again an attribute its parent C replaced
\* through set_feat keeps the arguments C changed.
C14_DerivedFromReplaced ==
    \A d \in Defined \ {"Base"} :
        LET c == ClassParent(d)
            od == heap[ClassAttr(classes, d, "n")]
            oc == heap[ClassAttr(classes, c, "n")]
        IN (/\ classes[c].body.set_feat.given
            /\ classes[d].body.override.given \/ classes[d].body.set_feat.given) =>
               /\ (/\ classes[c].body.set_feat.has_retries
                   /\ ~classes[d].body.set_feat.has_retries) =>
                      od.retries = oc.retries
               /\ (/\ classes[c].body.set_feat.has_checks
                   /\ ~classes[d].body.set_feat.has_checks) =>
                      od.kwargs.checks = oc.kwargs.checks

\* C15: an override method without annotation replaces the stage get or
\* set, and on the four other stages joins the composer of the stage, next
\* to the hooks the declaration installed (checks, discard).
C15_BareOverrideComposed ==
    \A c \in Defined :
        (classes[c].body.override.given
            /\ classes[c].body.override.composing = <<>>) =>
            LET o == heap[classes[c].customized]
                s == classes[c].body.override.stage
            IN IF s \in {"get", "set"}
               THEN o.slots[s] = BoundMethod(<<c, s>>)
               ELSE /\ o.slots[s].composer
                    /\ InSeq(o.slots[s].methods, <<c, s>>)
                    /\ (o.kwargs.checks /\ s \in {"pre_get", "pre_set"}) =>
                          InSeq(o.slots[s].names, "checks")
                    /\ (o.kwargs.discard /\ s = "post_set") =>
                          InSeq(o.slots[s].names, "discard")

\* The stage slot of the original as the changed arguments leave it.
WithChangedArgs(slot, s, custom_attrs) ==
    IF /\ custom_attrs.has_checks /\ ~custom_attrs.checks
       /\ s \in {"pre_get", "pre_set"} /\ slot.composer
    THEN LET d == MethodsComposer_remove_duplicate(slot, "checks")
         IN IF d.names = <<>> THEN BoundMethod(<<"Feature", s>>) ELSE d
    ELSE slot

\* The log records exactly one customization, an append, on one stage.
OneRecordedAppend(customs) ==
    \E s \in StageSet :
        /\ Len(customs[s]) = 1
        /\ customs[s][1].op = "append"
        /\ \A r \in StageSet \ {s} : customs[r] = <<>>

\* C16: an attribute rebuilt through set_feat from an original with one
\* recorded append customization runs, on every stage, the hooks of the
\* original in the same order, apart from the effect of the changed
\* arguments.
C16_ReplaySameBehaviour ==
    \A c \in Defined :
        (classes[c].body.set_feat.given
            /\ OneRecordedAppend(classes[c].src_customs)) =>
            \A s \in StageSet :
                heap[classes[c].rebuilt].slots[s] =
                    WithChangedArgs(heap[classes[c].src].slots[s], s,
                                    classes[c].body.set_feat)

\* ===================================================== calling a composer
(***************************************************************************)
(* One composer of one of the four classes of COMPOSERS, on which the      *)
(* methods of MethodsComposer and __call__ are called in any order.        *)
(* A hook is one of three functions of (driver, value, ...):               *)
(*   "inc"   returns value + 1                                             *)
(*   "none"  returns None                                                  *)
(*   "raise" raises an exception                                           *)
(***************************************************************************)
ComposerClasses ==
    {"PreGetComposer", "PostGetComposer", "PreSetComposer", "PostSetComposer"}

Ids == {"a", "b", "c"}

Hooks == {"inc", "none", "raise"}

NoHook == "unregistered"

\* Python's None, among integer values.
None == -1

\* The call of hook h with the given value: what it returns or raises.
\* Adding 1 to None is a TypeError.
HookCall(h, value) ==
    IF h = "raise" THEN [ret |-> None, exc |-> "HookError"]
    ELSE IF h = "none" THEN [ret |-> None, exc |-> "none"]
    ELSE IF value = None THEN [ret |-> None, exc |-> "TypeError"]
    ELSE [ret |-> value + 1, exc |-> "none"]

\* `value = m(driver, value)`: the name value is bound to what m returned.
next_value_kept(value, ret) == value

next_value(value, ret) == ret

NoArgs == [value |-> None, d_value |-> None, response |-> None]

\* Record of a method call on the composer.
LastCall(op, name, anchor, method, moved, exc) ==
    [op |-> op, name |-> name, anchor |-> anchor, method |-> method,
     moved |-> moved, exc |-> exc, args |-> NoArgs, trace |-> <<>>,
     ret |-> None]

\* Record of a __call__: the arguments each hook received, in call order.
LastRun(op, args, r) ==
    [op |-> op, name |-> "", anchor |-> "", method |-> NoHook,
     moved |-> FALSE, exc |-> r.exc, args |-> args, trace |-> r.trace,
     ret |-> r.ret]

InitComposer ==
    /\ composer \in {[cls |-> k, obj |-> EmptyComposer] : k \in ComposerClasses}
    /\ registered = [i \in Ids |-> NoHook]
    /\ last = LastCall("init", "", "", NoHook, FALSE, "none")
    /\ NoLimitsFeature
    /\ NoClassAssembly
    /\ NoChannels
    /\ NoScalars
    /\ feats = <<>>
    /\ use_cache = <<>>
    /\ cache = <<>>
    /\ lock = <<>>
    /\ pc = <<>>
    /\ fr = <<>>
    /\ live = {}
    /\ actor = NoThread
    /\ watch = <<>>
    /\ hist = <<>>

\* The composer after a method returned r = [c, exc]; a method that
\* returned normally has registered `method` under `name`.
Called(op, name, anchor, method, r) ==
    /\ composer' = [composer EXCEPT !.obj = r.c]
    /\ registered' = IF r.exc = "none" /\ method # NoHook
                     THEN [registered EXCEPT ![name] = method]
                     ELSE registered
    /\ last' = LastCall(op, name, anchor, method,
                        InSeq(composer.obj.names, name), r.exc)

prepend(name, method) ==
    Called("prepend", name, "", method,
           MethodsComposer_prepend(composer.obj, name, method))

append(name, method) ==
    Called("append", name, "", method,
           MethodsComposer_append(composer.obj, name, method))

add_after(anchor, name, method) ==
    Called("add_after", name, anchor, method,
           MethodsComposer_add_after(composer.obj, anchor, name, method))

add_before(anchor, name, method) ==
    Called("add_before", name, anchor, method,
           MethodsComposer_add_before(composer.obj, anchor, name, method))

replace(name, method) ==
    Called("replace", name, "", method,
           MethodsComposer_replace(composer.obj, name, method))

remove(name) ==
    Called("remove", name, "", NoHook,
           MethodsComposer_remove(composer.obj, name))

reset ==
    Called("reset", "", "", NoHook, MethodsComposer_reset(composer.obj))

\* PreGetComposer.__call__: `for m in self._methods: m(driver)`
RECURSIVE PreGetComposer_run(_, _)
PreGetComposer_run(methods, trace) ==
    IF methods = <<>> THEN [ret |-> None, exc |-> "none", trace |-> trace]
    ELSE LET r == HookCall(Head(methods), NoVal)
             t == Append(trace, [hook |-> Head(methods), args |-> NoArgs])
         IN IF r.exc # "none" THEN [ret |-> None, exc |-> r.exc, trace |-> t]
            ELSE PreGetComposer_run(Tail(methods), t)

\* PostGetComposer.__call__ and PreSetComposer.__call__:
\* `for m in self._methods: value = m(driver, value)` then `return value`
RECURSIVE ValueComposer_run(_, _, _)
ValueComposer_run(methods, value, trace) ==
    IF methods = <<>> THEN [ret |-> value, exc |-> "none", trace |-> trace]
    ELSE LET r == HookCall(Head(methods), value)
             t == Append(trace, [hook |-> Head(methods),
                                 args |-> [NoArgs EXCEPT !.value = value]])
         IN IF r.exc # "none" THEN [ret |-> None, exc |-> r.exc, trace |-> t]
            ELSE ValueComposer_run(Tail(methods), next_value(value, r.ret), t)

\* PostSetComposer.__call__:
\* `for m in self._methods: value = m(driver, value, d_value, response)`
RECURSIVE PostSetComposer_run(_, _, _)
PostSetComposer_run(methods, args, trace) ==
    IF methods = <<>> THEN [ret |-> None, exc |-> "none", trace |-> trace]
    ELSE LET r == HookCall(Head(methods), args.value)
             t == Append(trace, [hook |-> Head(methods), args |-> args])
         IN IF r.exc # "none" THEN [ret |-> None, exc |-> r.exc, trace |-> t]
            ELSE PostSetComposer_run(Tail(methods),
                     [args EXCEPT !.value = next_value(args.value, r.ret)], t)

PreGetComposer_call ==
    /\ composer.cls = "PreGetComposer"
    /\ last' = LastRun("pre_get", NoArgs,
                       PreGetComposer_run(composer.obj.methods, <<>>))
    /\ UNCHANGED <<composer, registered>>

PostGetComposer_call(value) ==
    /\ composer.cls = "PostGetComposer"
    /\ last' = LastRun("post_get", [NoArgs EXCEPT !.value = value],
                       ValueComposer_run(composer.obj.methods, value, <<>>))
    /\ UNCHANGED <<composer, registered>>

PreSetComposer_call(value) ==
    /\ composer.cls = "PreSetComposer"
    /\ last' = LastRun("pre_set", [NoArgs EXCEPT !.value = value],
                       ValueComposer_run(composer.obj.methods, value, <<>>))
    /\ UNCHANGED <<composer, registered>>

PostSetComposer_call(value, d_value, response) ==
    /\ composer.cls = "PostSetComposer"
    /\ LET args == [value |-> value, d_value |-> d_value, response |-> response]
       IN last' = LastRun("post_set", args,
                          PostSetComposer_run(composer.obj.methods, args, <<>>))
    /\ UNCHANGED <<composer, registered>>

NextComposer ==
    /\ UNCHANGED <<feats, use_cache, cache, lock, pc, fr, live, actor, watch,
                   hist, limitsVars, classVars, chanVars, scalarVars>>
    /\ \/ \E name \in Ids, method \in Hooks :
            \/ prepend(name, method)
            \/ append(name, method)
            \/ replace(name, method)
            \/ \E anchor \in Ids :
                  \/ add_after(anchor, name, method)
                  \/ add_before(anchor, name, method)
       \/ \E name \in Ids : remove(name)
       \/ reset
       \/ PreGetComposer_call
       \/ \E value \in Values :
            \/ PostGetComposer_call(value)
            \/ PreSetComposer_call(value)
            \/ \E d_value \in Values, response \in Responses :
                  PostSetComposer_call(value, d_value, response)

SpecComposer == InitComposer /\ [][NextComposer]_vars

\* The sequence s without the entries equal to x.
Without(s, x) == SelectSeq(s, LAMBDA e : e # x)

\* C17: whatever methods were called on a composer, raising or not, every
\* id occurs at most once in names, names and methods have the same length,
\* and methods[i] is the hook last registered under names[i].
C17_ComposerWellFormed ==
    LET names == composer.obj.names
        methods == composer.obj.methods
    IN /\ Len(names) = Len(methods)
       /\ \A i, j \in 1..Len(names) : names[i] = names[j] => i = j
       /\ \A i \in 1..Len(names) : methods[i] = registered[names[i]]

C17_Witness ==
    /\ last.op = "add_after"
    /\ last.exc = "ValueError"
    /\ last.moved
    /\ Len(composer.obj.names) = 2

\* C18: a prepend leaves the id first, an append leaves it last, an
\* add_before leaves it immediately before the anchor and an add_after
\* immediately after it; the id occurs once, also when it was present
\* before, and the other entries keep their relative order.
C18_InsertionPosition ==
    [][(last'.op \in {"prepend", "append", "add_before", "add_after"}
            /\ last'.exc = "none") =>
         LET id == last'.name
             old == composer.obj.names
             new == composer'.obj.names
             at == IndexOf(new, id)
         IN /\ InSeq(new, id)
            /\ Len(new) = Len(Without(old, id)) + 1
            /\ Without(new, id) = Without(old, id)
            /\ last'.op = "prepend" => at = 1
            /\ last'.op = "append" => at = Len(new)
            /\ last'.op = "add_before" =>
                  at < Len(new) /\ new[at + 1] = last'.anchor
            /\ last'.op = "add_after" =>
                  at > 1 /\ new[at - 1] = last'.anchor]_vars

C18_Witness ==
    /\ last.op = "add_before"
    /\ last.exc = "none"
    /\ last.moved
    /\ Len(composer.obj.names) = 3
    /\ composer.obj.names[2] = last.name

\* C19: every hook of a composed post_set stage is called with the value
\* of the user, the output of pre_set and the response of set, whatever
\* the hooks before it returned.
C19_PostSetSameInputs ==
    last.op = "post_set" =>
        \A i \in 1..Len(last.trace) : last.trace[i].args = last.args

\* The hooks called are the first hooks of the composer, in stored order,
\* once each; all of them when none raised.
CalledInStoredOrder ==
    /\ Len(last.trace) <= Len(composer.obj.methods)
    /\ \A i \in 1..Len(last.trace) :
          last.trace[i].hook = composer.obj.methods[i]
    /\ last.exc = "none" => Len(last.trace) = Len(composer.obj.methods)

\* C20: a composed post_get or pre_set stage calls its hooks once each in
\* stored order, each with the value the previous one returned, and
\* returns what the last one returned; a composed pre_get stage calls its
\* hooks once each in stored order and stops at the first that raises.
C20_ComposedStageOrder ==
    LET n == Len(last.trace)
        Out(i) == HookCall(last.trace[i].hook, last.trace[i].args.value)
    IN /\ last.op \in {"post_get", "pre_set"} =>
          /\ CalledInStoredOrder
          /\ n > 0 => last.trace[1].args.value = last.args.value
          /\ \A i \in 1..(n - 1) :
                /\ Out(i).exc = "none"
                /\ last.trace[i + 1].args.value = Out(i).ret
          /\ last.exc = "none" =>
                last.ret = IF n = 0 THEN last.args.value ELSE Out(n).ret
          /\ last.exc # "none" => n > 0 /\ Out(n).exc = last.exc
       /\ last.op = "pre_get" =>
          /\ CalledInStoredOrder
          /\ \A i \in 1..(n - 1) : last.trace[i].hook # "raise"
          /\ last.exc # "none" => n > 0 /\ last.trace[n].hook = "raise"

C20_Witness ==
    /\ last.op = "post_get"
    /\ last.exc = "none"
    /\ Len(last.trace) = 3
    /\ last.ret = last.args.value + 3

\* ============================================== stage order and exceptions
\* C21: in a read the stages run in the order pre_get, get, post_get and the
\* value returned is what post_get returned for the result of get (the
\* post_get of Feature returns its argument); in a write they run in the
\* order pre_set, set (called with the output of pre_set), post_set.  When
\* a pre stage raised, neither get or set, nor reopen_connection, nor the
\* post stage was called.
C21_StageOrder ==
    \A t \in Threads :
        LET f == fr[t]
            c == fr[t].calls
        IN /\ c.pre_get <= 1 /\ c.post_get <= 1
           /\ c.pre_set <= 1 /\ c.post_set <= 1
           /\ c.get > 0 => c.pre_get = 1 /\ f.exc_stage # "pre_get"
           /\ c.post_get = 1 => c.get > 0 /\ f.val # NoVal
           /\ (pc[t] = "done" /\ f.op = "get" /\ ~f.hit) =>
                 c.post_get = 1 /\ f.result = f.val
           /\ c.set > 0 =>
                 /\ c.pre_set = 1 /\ f.exc_stage # "pre_set"
                 /\ f.set_args = {pre_set_value(FrameFeat(f).pre_set.names, f.value)}
           /\ c.post_set = 1 => c.set > 0 /\ f.resp # NoVal
           /\ (pc[t] = "done" /\ f.op = "set" /\ ~f.hit) => c.post_set = 1
           /\ c.reopen > 0 => c.get + c.set > 0
           /\ f.exc_stage \in {"pre_get", "pre_set"} =>
                 /\ c.get = 0 /\ c.set = 0 /\ c.reopen = 0
                 /\ c.post_get = 0 /\ c.post_set = 0 /\ c.check = 0

C21_Witness ==
    \E t \in Threads :
        /\ pc[t] = "done" /\ fr[t].op = "set" /\ ~fr[t].hit
        /\ fr[t].name = "A"
        /\ fr[t].calls.reopen = 1
        /\ fr[t].calls.post_set = 1
        /\ fr[t].set_args = {2 * fr[t].value}

\* C22: whatever the retry count, only exceptions of the host's retryable
\* set lead to reopen_connection and a further attempt; a get or set stage
\* that raises another exception is not called again, and an exception of
\* pre_set ends the write before the set stage; the caller sees the
\* exception the stage raised.
C22_NonRetryablePropagates ==
    \A t \in Threads :
        LET f == fr[t]
            c == fr[t].calls
        IN /\ f.retried \in retries_exceptions \cup {"none"}
           /\ c.reopen > 0 => f.retried \in retries_exceptions
           /\ (f.exc_stage \in {"get", "set"} /\ f.exc \notin retries_exceptions) =>
                 /\ pc[t] = "raised"
                 /\ f.exc \in StageExceptions
                 /\ c[f.exc_stage] = c.reopen + 1
                 /\ c.post_get = 0 /\ c.post_set = 0
           /\ f.exc_stage = "pre_set" =>
                 /\ pc[t] = "raised"
                 /\ f.exc = "AssertionError"
                 /\ c.pre_set = 1 /\ c.set = 0 /\ c.reopen = 0

C22_Witness ==
    \E t \in Threads :
        /\ pc[t] = "raised"
        /\ fr[t].exc = "InvalidCommand"
        /\ fr[t].exc_stage = "get"
        /\ FrameFeat(fr[t]).retries = MaxRetries
        /\ fr[t].calls.get = 2
        /\ fr[t].calls.reopen = 1

\* ================================================================ channels
(***************************************************************************)
(* A driver with a subsystem and a channel container:                      *)
(*                                                                         *)
(*   class Driver(BaseDriver):                                             *)
(*       A = Feature(True, True)                                           *)
(*       ss = subsystem()                                                  *)
(*       ss.B = Feature(True, True)                                        *)
(*       ch = channel('list_channels')                                     *)
(*       ch.C = Feature(True, True)                                        *)
(*       ch.sub = subsystem()                                              *)
(*       ch.sub.D = Feature(True, True)                                    *)
(*       def list_channels(self): (what the instrument reports)            *)
(*                                                                         *)
(* Instances are kept in insts by object id; the root is the first one.    *)
(***************************************************************************)
ChIds == {1, 2}

Kinds == {"root", "ss", "ch", "sub"}

\* cls.__feats__ of the class of each kind of instance.
kind_feats(k) ==
    CASE k = "root" -> {"A"} [] k = "ss" -> {"B"}
      [] k = "ch" -> {"C"} [] k = "sub" -> {"D"}

\* cls.__subsystems__
kind_subsystems(k) ==
    CASE k = "root" -> {"ss"} [] k = "ch" -> {"sub"} [] OTHER -> {}

\* cls.__channels__
kind_channels(k) == IF k = "root" THEN {"ch"} ELSE {}

\* What list_channels can return.
AvailableChoices == {<<1>>, <<1, 2>>}

\* The most instances two threads can create: the root and its subsystem,
\* and for each channel id one channel with its subsystem per thread.
MaxInsts == 2 + 2 * Cardinality(Threads) * Cardinality(ChIds)

\* HasFeatures.__init__: an instance starts with an empty cache, and creates
\* an instance of each subsystem its class declares (SubSystem.__init__ and
\* Channel.__init__ record the parent, Channel.__init__ the id).
RECURSIVE HasFeatures_init(_, _, _, _), init_subsystems(_, _, _)

init_subsystems(objs, me, sss) ==
    IF sss = {} THEN objs
    ELSE With(CHOOSE x \in sss : TRUE,
              LAMBDA ss : init_subsystems(HasFeatures_init(objs, ss, me, NoVal),
                                          me, sss \ {ss}))

HasFeatures_init(objs, k, p, id) ==
    init_subsystems(Append(objs, [kind |-> k, parent |-> p, id |-> id,
                                  cache |-> [n \in kind_feats(k) |-> NoVal]]),
                    Len(objs) + 1, kind_subsystems(k))

\* The driver: the instance that has no parent.
Root(objs) == CHOOSE i \in 1..Len(objs) : objs[i].parent = NoVal

\* getattr(self, ss) for a subsystem name.
subsystem_attr(objs, h, ss) ==
    CHOOSE i \in 1..Len(objs) : objs[i].parent = h /\ objs[i].kind = ss

RECURSIVE lock_of(_, _)

\* Each instance with a lock of its own.
lock_own(objs, h) == h

\* SubSystem.lock and Channel.lock return self.parent.lock; the driver owns
\* an RLock.
lock_of(objs, h) ==
    IF objs[h].parent = NoVal THEN h ELSE lock_of(objs, objs[h].parent)

\* `ch_id in self._channels` answered as if the pool were always empty.
pooled_never(chs, ch_id) == FALSE

\* `ch_id in self._channels`
pooled(chs, ch_id) == chs[ch_id] # NoVal

\* ChannelContainer.__getitem__ run without interruption, on
\* st = [insts, channels]: the pooled instance is kept, or a new one is
\* created for the parent and stored.
ChannelContainer_getitem(st, ch_id) ==
    IF pooled(st.channels, ch_id) THEN st
    ELSE [insts |-> HasFeatures_init(st.insts, "ch", Root(st.insts), ch_id),
          channels |-> [st.channels EXCEPT ![ch_id] = Len(st.insts) + 1]]

\* ChannelContainer.__iter__: self[id] for each id of self.available.
RECURSIVE ChannelContainer_iter(_, _)
ChannelContainer_iter(st, ids) ==
    IF ids = <<>> THEN st
    ELSE ChannelContainer_iter(ChannelContainer_getitem(st, Head(ids)), Tail(ids))

\* The instances __iter__ yields, in st = the state it leaves.
yielded(st, ids) == {st.channels[ids[i]] : i \in 1..Len(ids)}

\* --------------------------------------------- clear_cache with channels
\* A name is the sequence of its dot-separated parts; '.A' is <<"", "A">>.
dotted_under(features, aux) ==
    {Tail(n) : n \in {m \in features : Len(m) > 1 /\ m[1] = aux}}

\* `del cache[name]` for the plain names that are in the cache.
del_entries(c, names) == [n \in DOMAIN c |-> IF n \in names THEN NoVal ELSE c[n]]

\* HasFeatures.clear_cache of instance h, on st = [insts, channels], while
\* the listing method returns ids.  clear_cache_each runs it for each target
\* <<instance, features>> of a loop of clear_cache.
RECURSIVE clear_cache_tree(_, _, _, _, _, _), clear_cache_each(_, _, _, _, _)

clear_cache_each(st, ids, targets, subsystems, channels) ==
    IF targets = {} THEN st
    ELSE With(CHOOSE x \in targets : TRUE,
              LAMBDA x : clear_cache_each(
                  clear_cache_tree(st, ids, x[1], subsystems, channels, x[2]),
                  ids, targets \ {x}, subsystems, channels))

clear_cache_tree(st, ids, h, subsystems, channels, features) ==
    IF features # {}
    THEN LET k == st.insts[h].kind
             plain == {n[1] : n \in {m \in features : Len(m) = 1}}
             par == dotted_under(features, "")
             st1 == [st EXCEPT !.insts[h].cache = del_entries(@, plain)]
             st2 == IF par # {}
                    THEN clear_cache_tree(st1, ids, st.insts[h].parent,
                                          TRUE, TRUE, par)
                    ELSE st1
             st3 == clear_cache_each(st2, ids,
                        {<<subsystem_attr(st.insts, h, ss),
                           dotted_under(features, ss)>> :
                            ss \in {x \in kind_subsystems(k) :
                                        dotted_under(features, x) # {}}},
                        TRUE, TRUE)
             chs == {c \in kind_channels(k) : dotted_under(features, c) # {}}
         IN IF chs # {}
            THEN With(ChannelContainer_iter(st3, ids),
                      LAMBDA st4 : clear_cache_each(st4, ids,
                          UNION {{<<o, dotted_under(features, c)>> :
                                      o \in yielded(st4, ids)} : c \in chs},
                          TRUE, TRUE))
            ELSE st3
    ELSE LET k == st.insts[h].kind
             st1 == [st EXCEPT !.insts[h].cache = [n \in DOMAIN @ |-> NoVal]]
             st2 == IF subsystems
                    THEN clear_cache_each(st1, ids,
                             {<<subsystem_attr(st.insts, h, ss), {}>> :
                                 ss \in kind_subsystems(k)},
                             TRUE, channels)
                    ELSE st1
         IN IF channels /\ kind_channels(k) # {}
            THEN With(ChannelContainer_iter(st2, ids),
                      LAMBDA st3 : clear_cache_each(st3, ids,
                          {<<o, {}>> : o \in yielded(st3, ids)},
                          subsystems, TRUE))
            ELSE st2

\* --------------------------------------------- check_cache with channels
\* A reported entry: the instance whose cache holds it, its name, its value.
Entry(h, n, v) == [host |-> h, name |-> n, val |-> v]

\* The entries of the cache of instance h among names.
entries_of(objs, h, names) ==
    {Entry(h, n, objs[h].cache[n]) :
        n \in {m \in DOMAIN objs[h].cache \cap names : objs[h].cache[m] # NoVal}}

\* HasFeatures.check_cache of instance h, on st = [insts, channels, report]:
\* the entries found are added to report; looking the available channels up
\* can create instances.
RECURSIVE check_cache(_, _, _, _, _, _), check_cache_each(_, _, _)

check_cache_each(st, ids, targets) ==
    IF targets = {} THEN st
    ELSE With(CHOOSE x \in targets : TRUE,
              LAMBDA x : check_cache_each(
                  check_cache(st, ids, x[1], TRUE, TRUE, x[2]),
                  ids, targets \ {x}))

check_cache(st, ids, h, subsystems, channels, features) ==
    LET k == st.insts[h].kind
        pool(x) == [insts |-> x.insts, channels |-> x.channels]
        looked(x) == With(ChannelContainer_iter(pool(x), ids),
                          LAMBDA y : [insts |-> y.insts, channels |-> y.channels,
                                      report |-> x.report])
    IN IF features # {}
       THEN LET plain == {n[1] : n \in {m \in features : Len(m) = 1}}
                st1 == [st EXCEPT !.report = @ \cup entries_of(st.insts, h, plain)]
                st2 == check_cache_each(st1, ids,
                           {<<subsystem_attr(st.insts, h, ss),
                              dotted_under(features, ss)>> :
                               ss \in {x \in kind_subsystems(k) :
                                           dotted_under(features, x) # {}}})
                chs == {c \in kind_channels(k) : dotted_under(features, c) # {}}
            IN IF chs # {}
               THEN With(looked(st2),
                         LAMBDA st3 : check_cache_each(st3, ids,
                             UNION {{<<o, dotted_under(features, c)>> :
                                         o \in yielded(st3, ids)} : c \in chs}))
               ELSE st2
       ELSE LET st1 == [st EXCEPT !.report =
                           @ \cup entries_of(st.insts, h, kind_feats(k))]
                st2 == IF subsystems
                       THEN [st1 EXCEPT !.report = @ \cup
                               UNION {entries_of(st.insts,
                                                 subsystem_attr(st.insts, h, ss),
                                                 kind_feats(ss)) :
                                          ss \in kind_subsystems(k)}]
                       ELSE st1
            IN IF channels /\ kind_channels(k) # {}
               THEN With(looked(st2),
                         LAMBDA st3 : [st3 EXCEPT !.report = @ \cup
                             UNION {entries_of(st3.insts, o, kind_feats("ch")) :
                                        o \in yielded(st3, ids)}])
               ELSE st2

\* ------------------------------------------------ the driver with channels
\* The value the instrument answers with; the cache operations never look
\* at the value of an entry.
Readings == {MaxVal}

\* History record of an operation on the driver: for a lookup, host is the
\* instance returned and features the id asked for.
ChOp(op, h, subsystems, channels, features, report) ==
    [op |-> op, host |-> h, subsystems |-> subsystems, channels |-> channels,
     features |-> features, report |-> report]

NoOp == ChOp("none", NoVal, TRUE, TRUE, {}, {})

\* The names offered to clear_cache and check_cache of an instance of kind k.
AllNames(k) ==
    CASE k = "root" -> {<<"A">>, <<"ss", "B">>, <<"ch", "C">>, <<"ch", "sub", "D">>}
      [] k = "ss" -> {<<"B">>, <<"", "A">>}
      [] k = "ch" -> {<<"C">>, <<"sub", "D">>, <<"", "A">>}
      [] k = "sub" -> {<<"D">>, <<"", "C">>}

NameChoices(k) == {{n} : n \in AllNames(k)} \cup {AllNames(k)}

\* The arguments offered: names, or no names and the flags (both values of
\* a flag where the class declares sub-containers of that sort).
Selectors(h) ==
    {<<s, c, {}>> :
        s \in (IF kind_subsystems(insts[h].kind) = {} THEN {TRUE} ELSE BOOLEAN),
        c \in (IF kind_channels(insts[h].kind) = {} THEN {TRUE} ELSE BOOLEAN)}
        \cup {<<TRUE, TRUE, fs>> : fs \in NameChoices(insts[h].kind)}

pipelineData == <<feats, use_cache, cache, watch, hist>>

InitDriver ==
    /\ insts = HasFeatures_init(<<>>, "root", NoVal, NoVal)
    /\ _channels = [i \in ChIds |-> NoVal]
    /\ chlast = NoOp
    /\ actor = NoThread
    /\ feats = <<>>
    /\ use_cache = <<>>
    /\ cache = <<>>
    /\ watch = <<>>
    /\ hist = <<>>
    /\ NoLimitsFeature
    /\ NoClassAssembly
    /\ NoComposer
    /\ NoScalars

\* One thread uses the driver, one call after the other; the instrument's
\* channel list changes.
InitChannels ==
    /\ InitDriver
    /\ available \in AvailableChoices
    /\ lock = <<>>
    /\ pc = <<>>
    /\ fr = <<>>
    /\ live = {}

\* driver.ch[ch_id]
getitem(ch_id) ==
    /\ \E r \in {ChannelContainer_getitem([insts |-> insts, channels |-> _channels],
                                          ch_id)} :
          /\ insts' = r.insts
          /\ _channels' = r.channels
          /\ chlast' = ChOp("lookup", r.channels[ch_id], TRUE, TRUE, {ch_id}, {})
    /\ UNCHANGED available

\* Feature._set of feature n of instance h with caching: when the chain has
\* run, `cache[name] = value`.
cached_set(h, n, v) ==
    /\ n \in kind_feats(insts[h].kind)
    /\ insts' = [insts EXCEPT ![h].cache[n] = v]
    /\ chlast' = NoOp
    /\ UNCHANGED <<_channels, available>>

\* instance.clear_cache(subsystems, channels, features)
clear_cache_call(h, subsystems, channels, features) ==
    /\ \E r \in {clear_cache_tree([insts |-> insts, channels |-> _channels],
                                  available, h, subsystems, channels, features)} :
          /\ insts' = r.insts
          /\ _channels' = r.channels
    /\ chlast' = ChOp("clear", h, subsystems, channels, features, {})
    /\ UNCHANGED available

\* instance.check_cache(subsystems, channels, features)
check_cache_call(h, subsystems, channels, features) ==
    /\ \E r \in {check_cache([insts |-> insts, channels |-> _channels,
                              report |-> {}],
                             available, h, subsystems, channels, features)} :
          /\ insts' = r.insts
          /\ _channels' = r.channels
          /\ chlast' = ChOp("check", h, subsystems, channels, features, r.report)
    /\ UNCHANGED available

\* The instrument is reconfigured: list_channels returns ids from now on.
list_channels(ids) ==
    /\ available # ids
    /\ available' = ids
    /\ chlast' = NoOp
    /\ UNCHANGED <<insts, _channels>>

NextChannels ==
    /\ UNCHANGED <<pipelineData, lock, pc, fr, live, actor>>
    /\ UNCHANGED <<limitsVars, classVars, composerVars, scalarVars>>
    /\ \/ \E ch_id \in ChIds : getitem(ch_id)
       \/ \E h \in 1..Len(insts) : \E n \in {"A", "B", "C", "D"} :
             \E v \in Readings : cached_set(h, n, v)
       \/ \E h \in 1..Len(insts) : \E a \in Selectors(h) :
             clear_cache_call(h, a[1], a[2], a[3])
       \/ \E h \in 1..Len(insts) : \E a \in Selectors(h) :
             check_cache_call(h, a[1], a[2], a[3])
       \/ \E ids \in AvailableChoices : list_channels(ids)

SpecChannels == InitChannels /\ [][NextChannels]_vars

\* ------------------------------------------- two threads on the channels
\* Locals of a thread: the id it looks up and the channel it got (ch), and
\* the instance, name and value of the write it is executing.
ChFrame(id, ch) == [id |-> id, ch |-> ch, host |-> NoVal, name |-> "none",
                    value |-> NoVal]

\* The channel an instance belongs to, if any.
channel_of(objs, h) ==
    IF objs[h].kind = "ch" THEN h
    ELSE IF objs[h].kind = "sub" THEN objs[h].parent ELSE NoVal

\* The instances thread t can name: the driver and its subsystem, the pooled
\* channels, the channel a lookup returned to t, and their subsystems.
Reachable(t) ==
    {h \in 1..Len(insts) :
        \/ channel_of(insts, h) = NoVal
        \/ _channels[insts[channel_of(insts, h)].id] = channel_of(insts, h)
        \/ pc[t] = "have" /\ fr[t].ch = channel_of(insts, h)}

AtRest(t) == pc[t] \in {"idle", "have"}

\* Two threads share the driver and use the channel the instrument lists.
InitChannelsConc ==
    /\ InitDriver
    /\ available = <<1>>
    /\ lock = [i \in 1..MaxInsts |-> FreeLock]
    /\ pc = [t \in Threads |-> "idle"]
    /\ fr = [t \in Threads |-> ChFrame(NoVal, NoVal)]
    /\ live = Threads

Returned_channel(t, ch_id, ch) ==
    /\ pc' = [pc EXCEPT ![t] = "have"]
    /\ fr' = [fr EXCEPT ![t] = ChFrame(ch_id, ch)]

\* ChannelContainer.__getitem__, the membership test: a pooled instance is
\* returned.
getitem_check(t, ch_id) ==
    /\ AtRest(t)
    /\ IF pooled(_channels, ch_id)
       THEN Returned_channel(t, ch_id, _channels[ch_id])
       ELSE /\ pc' = [pc EXCEPT ![t] = "create"]
            /\ fr' = [fr EXCEPT ![t] = ChFrame(ch_id, NoVal)]
    /\ actor' = t
    /\ UNCHANGED <<insts, _channels, available, chlast, lock, live>>

\* ChannelContainer.__getitem__: ch = self._cls(parent, ch_id, ...)
getitem_create(t) ==
    /\ pc[t] = "create"
    /\ insts' = HasFeatures_init(insts, "ch", Root(insts), fr[t].id)
    /\ fr' = [fr EXCEPT ![t].ch = Len(insts) + 1]
    /\ pc' = [pc EXCEPT ![t] = "store"]
    /\ actor' = t
    /\ UNCHANGED <<_channels, available, chlast, lock, live>>

\* ChannelContainer.__getitem__: self._channels[ch_id] = ch; return ch
getitem_store(t) ==
    /\ pc[t] = "store"
    /\ _channels' = [_channels EXCEPT ![fr[t].id] = fr[t].ch]
    /\ Returned_channel(t, fr[t].id, fr[t].ch)
    /\ actor' = t
    /\ UNCHANGED <<insts, available, chlast, lock, live>>

\* Feature._set of feature n of instance h: `with instance.lock:`.
cached_set_enter(t, h, n, v) ==
    /\ AtRest(t)
    /\ h \in Reachable(t)
    /\ n \in kind_feats(insts[h].kind)
    /\ CanAcquire(lock_of(insts, h), t)
    /\ lock' = Acquire(lock_of(insts, h), t)
    /\ fr' = [fr EXCEPT ![t].host = h, ![t].name = n, ![t].value = v]
    /\ pc' = [pc EXCEPT ![t] = "access"]
    /\ actor' = t
    /\ UNCHANGED <<insts, _channels, available, chlast, live>>

\* Feature._set: the chain has run, `cache[name] = value`, and the lock is
\* released.
cached_set_exit(t) ==
    /\ pc[t] = "access"
    /\ insts' = [insts EXCEPT ![fr[t].host].cache[fr[t].name] = fr[t].value]
    /\ lock' = Release(lock_of(insts, fr[t].host), t)
    /\ pc' = [pc EXCEPT ![t] = IF fr[t].ch = NoVal THEN "idle" ELSE "have"]
    /\ fr' = [fr EXCEPT ![t] = ChFrame(fr[t].id, fr[t].ch)]
    /\ actor' = t
    /\ UNCHANGED <<_channels, available, chlast, live>>

NextChannelsConc ==
    /\ UNCHANGED <<pipelineData, limitsVars, classVars, composerVars,
                   scalarVars>>
    /\ \E t \in live :
          \/ \E i \in 1..Len(available) : getitem_check(t, available[i])
          \/ getitem_create(t)
          \/ getitem_store(t)
          \/ \E h \in 1..Len(insts) : \E n \in {"A", "B", "C", "D"} :
                \E v \in Readings : cached_set_enter(t, h, n, v)
          \/ cached_set_exit(t)

SpecChannelsConc == InitChannelsConc /\ [][NextChannelsConc]_vars

\* ========================================================= channel claims
\* C23: on one host, whatever calls were made before, a lookup of a channel
\* id returns the instance the first lookup of that id created (the pooled
\* instance of an id is never replaced and is the one returned, and it was
\* created as a channel with that id), and two different ids yield two
\* distinct instances.
C23_LookupSameInstance ==
    [][/\ \A i \in ChIds :
             _channels[i] # NoVal => _channels'[i] = _channels[i]
       /\ chlast'.op = "lookup" =>
             \A i \in chlast'.features :
                 /\ chlast'.host = _channels'[i]
                 /\ insts'[chlast'.host].kind = "ch"
                 /\ insts'[chlast'.host].id = i
       /\ \A i, j \in ChIds :
             (i # j /\ _channels'[i] # NoVal /\ _channels'[j] # NoVal)
                 => _channels'[i] # _channels'[j]]_vars

\* A lookup of id 1 returned the instance that was created and written
\* before, while a channel of id 2 exists as well.
C23_Witness ==
    /\ chlast.op = "lookup" /\ chlast.features = {1}
    /\ chlast.host = _channels[1]
    /\ insts[chlast.host].cache["C"] # NoVal
    /\ _channels[2] # NoVal

\* C24: when two threads look the same channel id up for the first time at
\* the same moment, both obtain the same instance and the pool ends with one
\* instance for the id: a thread that holds a channel holds the pooled one,
\* and every instance that holds a cached value is the one later lookups
\* reach.
C24_OneInstancePerId ==
    /\ \A t \in Threads :
          pc[t] = "have" => fr[t].ch = _channels[fr[t].id]
    /\ \A h \in 1..Len(insts) :
          (insts[h].kind = "ch" /\ insts[h].cache["C"] # NoVal)
              => _channels[insts[h].id] = h

\* C25: for every subsystem or channel at any nesting depth below a root,
\* its lock is the lock object of the root, so a thread that holds it keeps
\* every other thread out of attribute access on the root and on every
\* sub-container of that root: no two threads are inside a write at once,
\* and the thread inside a write owns the root's lock.
C25_RootLockShared ==
    /\ \A h \in 1..Len(insts) : lock_of(insts, h) = Root(insts)
    /\ \A t \in Threads :
          pc[t] = "access" =>
              /\ lock[Root(insts)].owner = t
              /\ \A u \in Threads \ {t} : pc[u] # "access"
    /\ \A h \in 1..MaxInsts : h # Root(insts) => lock[h] = FreeLock

\* A thread is inside a write on the subsystem of a channel (depth two)
\* while the other thread holds a channel of its own to write to.
C25_Witness ==
    \E t, u \in Threads :
        /\ t # u
        /\ pc[t] = "access" /\ insts[fr[t].host].kind = "sub"
        /\ pc[u] = "have" /\ fr[u].ch # channel_of(insts, fr[t].host)

\* The last call was a clear_cache of the driver that covers its channels:
\* without names and with channels included, or with the dotted name of a
\* feature of the channel kind.
ClearedChannels ==
    /\ chlast.op = "clear"
    /\ chlast.host = Root(insts)
    /\ \/ chlast.features = {} /\ chlast.channels
       \/ <<"ch", "C">> \in chlast.features

\* C26: a cache clear that covers channels clears the cache of every
\* channel instance that exists in the pool, whatever its id and whether or
\* not the id is in the list of available ids at the time of the clear.
C26_ClearCoversPool ==
    ClearedChannels =>
        \A i \in ChIds :
            _channels[i] # NoVal => insts[_channels[i]].cache["C"] = NoVal

\* The entries <<instance, name>> a name given to instance h addresses (the
\* docstring of clear_cache): a plain name is an entry of h, '.n' is resolved
\* in the parent, 'ss.n' in the subsystem ss, and 'ch.n' in all the instances
\* of the channel kind ch.
RECURSIVE named_entries(_, _, _, _)
named_entries(objs, chs, h, n) ==
    IF Len(n) = 1 THEN {<<h, n[1]>>}
    ELSE IF n[1] = "" THEN named_entries(objs, chs, objs[h].parent, Tail(n))
    ELSE IF n[1] \in kind_subsystems(objs[h].kind)
    THEN named_entries(objs, chs, subsystem_attr(objs, h, n[1]), Tail(n))
    ELSE IF n[1] \in kind_channels(objs[h].kind)
    THEN UNION {named_entries(objs, chs, chs[i], Tail(n)) :
                    i \in {j \in ChIds : chs[j] # NoVal}}
    ELSE {}

\* The value of an entry before the last step (absent when the instance did
\* not exist).
EntryBefore(h, n) == IF h <= Len(insts) THEN insts[h].cache[n] ELSE NoVal

\* C27: clear_cache with a list of names removes exactly the named entries
\* (a dotted name is resolved in the named subsystem, or in each channel of
\* the named channel kind) and leaves every other entry of the host's cache
\* and of its sub-containers' caches unchanged.
C27_NamedEntriesRemoved ==
    [][(chlast'.op = "clear" /\ chlast'.features # {}) =>
          \A h \in 1..Len(insts') : \A n \in DOMAIN insts'[h].cache :
              insts'[h].cache[n] =
                  IF <<h, n>> \in UNION {named_entries(insts, _channels,
                                                      chlast'.host, f) :
                                             f \in chlast'.features}
                  THEN NoVal
                  ELSE EntryBefore(h, n)]_vars

\* The instances below h: its subsystems, its pooled channels, and what is
\* below them.
below(objs, h) ==
    {x \in 1..Len(objs) : x # h /\ (objs[x].parent = h
                                     \/ (objs[x].parent # NoVal
                                         /\ objs[objs[x].parent].parent = h))}

\* C28: clear_cache without names empties the host's own cache; it empties
\* every subsystem cache when subsystems is true and every channel cache
\* when channels is true; with subsystems false no subsystem cache at any
\* depth changes and with channels false no channel cache at any depth
\* changes.  (A subsystem below the host is required to be emptied when both
\* flags are true, which covers the subsystems of channels.)
C28_ClearAllFrame ==
    [][(chlast'.op = "clear" /\ chlast'.features = {}) =>
          /\ \A n \in DOMAIN insts'[chlast'.host].cache :
                insts'[chlast'.host].cache[n] = NoVal
          /\ \A h \in below(insts, chlast'.host) : \A n \in DOMAIN insts[h].cache :
                /\ (insts[h].kind \in {"ss", "sub"} /\ chlast'.subsystems
                       /\ chlast'.channels)
                      => insts'[h].cache[n] = NoVal
                /\ (insts[h].kind = "ch" /\ chlast'.channels)
                      => insts'[h].cache[n] = NoVal
                /\ (insts[h].kind \in {"ss", "sub"} /\ ~chlast'.subsystems)
                      => insts'[h].cache[n] = insts[h].cache[n]
                /\ (insts[h].kind = "ch" /\ ~chlast'.channels)
                      => insts'[h].cache[n] = insts[h].cache[n]]_vars

\* The entries <<instance, name>> that are in a cache now and that the call
\* instance.clear_cache(subsystems, channels, features) would remove.
would_remove(h, subsystems, channels, features) ==
    With(clear_cache_tree([insts |-> insts, channels |-> _channels],
                          available, h, subsystems, channels, features),
         LAMBDA r : UNION {{<<x, n>> : n \in {m \in DOMAIN insts[x].cache :
                                                 /\ insts[x].cache[m] # NoVal
                                                 /\ r.insts[x].cache[m] = NoVal}} :
                              x \in 1..Len(insts)})

\* C29: check_cache never changes a cache (the caches of the host, of its
\* subsystems and of its channels are after the call what they were before),
\* and for the same selector arguments it reports exactly the entries, with
\* their values, that clear_cache would remove.
C29_CheckReportsWhatClearRemoves ==
    [][chlast'.op = "check" =>
          /\ \A h \in 1..Len(insts') : \A n \in DOMAIN insts'[h].cache :
                insts'[h].cache[n] = EntryBefore(h, n)
          /\ \A e \in chlast'.report : e.val = insts[e.host].cache[e.name]
          /\ {<<e.host, e.name>> : e \in chlast'.report} =
                would_remove(chlast'.host, chlast'.subsystems,
                             chlast'.channels, chlast'.features)]_vars

\* ============================================================ limits cache
(***************************************************************************)
(* One thread uses a driver whose feature A discards the limits 'lim':     *)
(*                                                                         *)
(*   class Driver(BaseDriver):                                             *)
(*       A = Feature(setter=True, discard={'limits': ('lim',)})            *)
(*       def _limits_lim(self): ...                                        *)
(*       def _limits_other(self): ...                                      *)
(*       def _post_set_A(self, feat, value, i_value, response): pass       *)
(*                                                                         *)
(* (_post_set_A is present or not, caching is allowed or not).  A limits   *)
(* validator is modelled by a value; a limits accessor returns one or      *)
(* raises.  hist counts, for each id, the runs and the returns of its      *)
(* accessor since the last discard naming the id.                          *)
(***************************************************************************)
LimitIds == {"lim", "other"}

\* The discard argument {'limits': ('lim',)}.
DiscardLim == [given |-> TRUE, has_features |-> FALSE, features |-> {},
               limits |-> {"lim"}]

\* HasFeaturesMeta.__new__ for the class above.
LimitsDriverClass(custom_post_set) ==
    With(FeatureInit(0, FALSE, DiscardLim),
         LAMBDA a : [A |-> IF custom_post_set
                           THEN modify_behavior(a, "post_set", "driver",
                                                "replace_method")
                           ELSE a])

\* HasFeatures.get_limits(limits_id) on the _limits_cache c, when the
\* accessor would return v (ok) or raise: the cache after the call, how
\* often the accessor ran, and the validator returned (NoVal when raised).
HasFeatures_get_limits(c, limits_id, ok, v) ==
    IF c[limits_id] # NoVal
    THEN [cache |-> c, ran |-> 0, ret |-> c[limits_id]]
    ELSE IF ok
    THEN [cache |-> [c EXCEPT ![limits_id] = v], ran |-> 1, ret |-> v]
    ELSE [cache |-> c, ran |-> 1, ret |-> NoVal]

\* discard_limits that removes nothing.
HasFeatures_discard_nothing(c, limits_id) == c

\* HasFeatures.discard_limits(limits_id)
HasFeatures_discard_limits(c, limits_id) ==
    [i \in DOMAIN c |-> IF i \in limits_id THEN NoVal ELSE c[i]]

\* Counters are kept up to this value.
CountCap == 2

Count(n) == IF n < CountCap THEN n + 1 ELSE n

\* History: op, id, ran, ret describe the last call; after tells what had
\* discarded the id looked up ("none" when nothing had since the last
\* lookup); runs/returns count the accessor's runs and returns since the
\* last discard of each id; cause is the pending discard of each id; wrote
\* tells that a write of A has completed since the last lookup of 'lim'.
LimHist(op, id, ran, ret, after, runs, returns, cause, wrote) ==
    [op |-> op, id |-> id, ran |-> ran, ret |-> ret, after |-> after,
     runs |-> runs, returns |-> returns, cause |-> cause, wrote |-> wrote]

InitLimitsCache ==
    /\ \E p \in BOOLEAN : feats = LimitsDriverClass(p)
    /\ use_cache \in BOOLEAN
    /\ cache = [A |-> NoVal]
    /\ limits_cache = [i \in LimitIds |-> NoVal]
    /\ limits = NoVal
    /\ hist = LimHist("none", "none", 0, NoVal, "none",
                      [i \in LimitIds |-> 0], [i \in LimitIds |-> 0],
                      [i \in LimitIds |-> "none"], FALSE)
    /\ watch = <<>>
    /\ lock = <<>>
    /\ pc = <<>>
    /\ fr = <<>>
    /\ live = {}
    /\ actor = NoThread
    /\ NoClassAssembly
    /\ NoComposer
    /\ NoChannels
    /\ NoScalars

\* driver.get_limits(limits_id)
get_limits_call(limits_id, ok, v) ==
    /\ \E r \in {HasFeatures_get_limits(limits_cache, limits_id, ok, v)} :
          /\ limits_cache' = r.cache
          /\ hist' = LimHist("get", limits_id, r.ran, r.ret,
                             hist.cause[limits_id],
                             [hist.runs EXCEPT ![limits_id] =
                                 IF r.ran = 1 THEN Count(@) ELSE @],
                             [hist.returns EXCEPT ![limits_id] =
                                 IF r.ran = 1 /\ r.ret # NoVal THEN Count(@) ELSE @],
                             [hist.cause EXCEPT ![limits_id] = "none"],
                             hist.wrote /\ limits_id # "lim")
    /\ UNCHANGED <<feats, use_cache, cache>>

\* What a discard naming the ids does to the history.
Discarded(h, ids, by) ==
    [h EXCEPT !.runs = [i \in LimitIds |-> IF i \in ids THEN 0 ELSE h.runs[i]],
              !.returns = [i \in LimitIds |-> IF i \in ids THEN 0 ELSE h.returns[i]],
              !.cause = [i \in LimitIds |-> IF i \in ids THEN by ELSE h.cause[i]]]

\* driver.discard_limits(limits_id)
discard_limits_call(limits_id) ==
    /\ limits_cache' = HasFeatures_discard_limits(limits_cache, limits_id)
    /\ hist' = [Discarded(hist, limits_id, "discard_limits") EXCEPT
                   !.op = "discard", !.id = "none", !.ran = 0, !.ret = NoVal,
                   !.after = "none"]
    /\ UNCHANGED <<feats, use_cache, cache>>

\* driver.A = v: Feature._set.  A write of the cached value returns at once;
\* otherwise set_chain runs: the write stage raises e or succeeds, then the
\* post_set slot is called (Feature.discard_cache when it holds the discard
\* step) and the value is cached.
discarding_set(v, e) ==
    IF use_cache /\ set_cached(cache, "A", v)
    THEN /\ hist' = [hist EXCEPT !.op = "write_cached", !.id = "none",
                                 !.ran = 0, !.ret = NoVal, !.after = "none",
                                 !.wrote = TRUE]
         /\ UNCHANGED <<feats, use_cache, cache, limits_cache>>
    ELSE IF e # "none"
    THEN /\ hist' = [hist EXCEPT !.op = "write_raised", !.id = "none",
                                 !.ran = 0, !.ret = NoVal, !.after = "none"]
         /\ UNCHANGED <<feats, use_cache, cache, limits_cache>>
    ELSE /\ cache' = IF use_cache THEN [cache EXCEPT !.A = v] ELSE cache
         /\ IF HasHook(feats.A.post_set, "discard")
            THEN /\ limits_cache' = HasFeatures_discard_limits(
                                        limits_cache, feats.A.discard.limits)
                 /\ hist' = [Discarded(hist, feats.A.discard.limits, "write")
                                EXCEPT !.op = "write", !.id = "none", !.ran = 0,
                                       !.ret = NoVal, !.after = "none",
                                       !.wrote = TRUE]
            ELSE /\ limits_cache' = limits_cache
                 /\ hist' = [hist EXCEPT !.op = "write_plain", !.id = "none",
                                         !.ran = 0, !.ret = NoVal,
                                         !.after = "none", !.wrote = TRUE]
         /\ UNCHANGED <<feats, use_cache>>

NextLimitsCache ==
    /\ UNCHANGED <<limits, watch, lock, pc, fr, live, actor>>
    /\ UNCHANGED <<classVars, composerVars, chanVars, scalarVars>>
    /\ \/ \E limits_id \in LimitIds, ok \in BOOLEAN, v \in Values :
             get_limits_call(limits_id, ok, v)
       \/ \E ids \in SUBSET LimitIds : discard_limits_call(ids)
       \/ \E v \in Values, e \in StageExceptions \cup {"none"} :
             discarding_set(v, e)

SpecLimitsCache == InitLimitsCache /\ [][NextLimitsCache]_vars

\* A lookup calls the accessor only when the id is not in the limits cache,
\* and otherwise returns the cached validator and leaves the cache alone; a
\* returned validator is the cached one from then on.
LookupUsesCache ==
    hist'.op = "get" =>
        IF limits_cache[hist'.id] # NoVal
        THEN /\ hist'.ran = 0
             /\ hist'.ret = limits_cache[hist'.id]
             /\ limits_cache' = limits_cache
        ELSE /\ hist'.ran = 1
             /\ limits_cache' = [limits_cache EXCEPT ![hist'.id] = hist'.ret]

Units == {"V", "kV"}
scale(u) == IF u = "kV" THEN 1000 ELSE 1

\* A bare number and a unit-carrying quantity, as the user passes them.
Number(n) == [mag |-> n, unit |-> "none"]
Quantity(n, u) == [mag |-> n, unit |-> u]
NoEntry == [mag |-> NoVal, unit |-> "absent"]
isinstance_Quantity(value) == value.unit \in Units

\* value.to(unit).magnitude
Quantity_to(value, unit) == (value.mag * scale(value.unit)) \div scale(unit)

\* value == cache[name] as the quantity type decides it: two quantities are
\* compared after conversion, two numbers by value, and a quantity with a
\* dimension never equals a bare number.
value_eq(a, b) ==
    IF isinstance_Quantity(a) /\ isinstance_Quantity(b)
    THEN Quantity_to(a, "V") = Quantity_to(b, "V")
    ELSE IF ~isinstance_Quantity(a) /\ ~isinstance_Quantity(b)
    THEN a.mag = b.mag
    ELSE FALSE

\* Float.__init__(unit=...), unit support present: the parsed unit, the
\* creation arguments and the two conversion steps.
Float_init(unit) ==
    [unit |-> unit, creation_unit |-> unit,
     pre_set |-> <<"convert">>, post_get |-> <<"cast">>]

\* Float.convert(instance, value): the number handed to the write stage and
\* the unit the feature holds afterwards.
Float_convert(f, value) ==
    IF isinstance_Quantity(value)
    THEN IF f.unit # "none"
         THEN [value |-> Quantity_to(value, f.unit), unit |-> f.unit]
         ELSE [value |-> value.mag, unit |-> value.unit]
    ELSE [value |-> value.mag, unit |-> f.unit]

\* Float.cast_to_float(instance, value)
Float_cast_to_float(f, value) ==
    IF f.unit # "none" THEN Quantity(value, f.unit) ELSE Number(value)

FloatInputs ==
    {Number(n) : n \in Values} \cup
    UNION {{Quantity(n, u) : n \in Values} : u \in Units}

\* History of the Float study: the last operation, what it returned, whether
\* it invoked the instrument stage, and the last value a write stage took.
FloatHist(op, given, ret, ran, written) ==
    [op |-> op, given |-> given, ret |-> ret, ran |-> ran, written |-> written]

InitFloat ==
    /\ \E u \in {"V", "none"} : feats = [fl |-> Float_init(u)]
    /\ use_cache \in BOOLEAN
    /\ cache = [fl |-> NoEntry]
    /\ instr \in Values
    /\ hist = FloatHist("none", NoEntry, NoEntry, FALSE, NoEntry)
    /\ call = <<>>
    /\ result = <<>>
    /\ watch = <<>>
    /\ lock = <<>>
    /\ pc = <<>>
    /\ fr = <<>>
    /\ live = {}
    /\ actor = NoThread
    /\ NoLimitsFeature
    /\ NoClassAssembly
    /\ NoComposer
    /\ NoChannels

\* parent.fl: Feature._get with the tester's _get_fl and Float's post_get.
fl_get ==
    IF cache.fl # NoEntry
    THEN /\ hist' = FloatHist("get", NoEntry, cache.fl, FALSE, hist.written)
         /\ UNCHANGED <<feats, use_cache, cache, instr>>
    ELSE \E r \in {Float_cast_to_float(feats.fl, instr)} :
         /\ cache' = IF use_cache THEN [cache EXCEPT !.fl = r] ELSE cache
         /\ hist' = FloatHist("get", NoEntry, r, TRUE, NoEntry)
         /\ UNCHANGED <<feats, use_cache, instr>>

\* parent.fl = value: Feature._set with Float's pre_set and the tester's
\* _set_fl; the write stage raises when e is an exception.
fl_set(value, e) ==
    IF cache.fl # NoEntry /\ value_eq(value, cache.fl)
    THEN /\ hist' = FloatHist("set", value, NoEntry, FALSE, hist.written)
         /\ UNCHANGED <<feats, use_cache, cache, instr>>
    ELSE \E r \in {Float_convert(feats.fl, value)} :
         /\ feats' = [feats EXCEPT !.fl.unit = r.unit]
         /\ IF e # "none"
            THEN /\ hist' = FloatHist("set_raised", value, NoEntry, TRUE,
                                      hist.written)
                 /\ UNCHANGED <<use_cache, cache, instr>>
            ELSE /\ instr' = r.value
                 /\ cache' = IF use_cache THEN [cache EXCEPT !.fl = value]
                             ELSE cache
                 /\ hist' = FloatHist("set", value, NoEntry, TRUE, value)
                 /\ UNCHANGED use_cache

\* parent.val = n: the instrument changes behind the driver's back.
instr_change(n) ==
    /\ n # instr
    /\ instr' = n
    /\ hist' = FloatHist("instr", NoEntry, NoEntry, FALSE, hist.written)
    /\ UNCHANGED <<feats, use_cache, cache>>

NextFloat ==
    /\ UNCHANGED <<limits, limits_cache, watch, lock, pc, fr, live, actor,
                   call, result>>
    /\ UNCHANGED <<classVars, composerVars, chanVars>>
    /\ \/ fl_get
       \/ \E value \in FloatInputs, e \in StageExceptions \cup {"none"} :
             fl_set(value, e)
       \/ \E n \in Values : instr_change(n)

SpecFloat == InitFloat /\ [][NextFloat]_vars

\* The quantity a written value stands for under the declared unit.
as_quantity(value) ==
    IF isinstance_Quantity(value)
    THEN Quantity_to(value, "V")
    ELSE value.mag

\* C31: for a Float declared with a unit on a caching driver, once a write
\* stage has taken a value (bare number or quantity), a read returns a
\* unit-carrying quantity without invoking the read stage, and a write of the
\* same quantity in either representation invokes no write stage.
C31_UnitCacheBothRepresentations ==
    [][(/\ feats.fl.creation_unit = "V"
        /\ use_cache
        /\ hist.written # NoEntry)
       => /\ hist'.op = "get"
             => /\ isinstance_Quantity(hist'.ret)
                /\ ~hist'.ran
          /\ (/\ hist'.op \in {"set", "set_raised"}
              /\ as_quantity(hist'.given) = as_quantity(hist.written))
             => ~hist'.ran]_vars

\* ---------------------------------------------------------------------
\* Channel.default_get_feature / default_set_feature (channel.py).
\* ---------------------------------------------------------------------

\* Keyword arguments: the keys a caller may use, NoVal marking an absent key.
KwKeys == {"a", "id", "ch_id"}
NoKwargs == [k \in KwKeys |-> NoVal]
Kwargs == [KwKeys -> {NoVal} \cup Values]

\* kwargs[key] = value
dict_setitem(kwargs, key, value) == [kwargs EXCEPT ![key] = value]

\* What the parent's default method has recorded: DummyParent.d_*_called,
\* d_*_cmd, d_*_args, d_*_kwargs (and the feature it was handed).
NoRecord == [called |-> 0, feat |-> "none", cmd |-> "none", args |-> <<>>,
             kwargs |-> NoKwargs]

\* DummyParent.default_get_feature / default_set_feature
DummyParent_default(rec, feat, cmd, args, kwargs) ==
    [called |-> rec.called + 1, feat |-> feat, cmd |-> cmd, args |-> args,
     kwargs |-> kwargs]

\* The keyword arguments a channel hands to its parent.
Channel_kwargs(ch_id, kwargs) == dict_setitem(kwargs, "id", ch_id)

ForwardCalls ==
    [ch_id : ChIds, feat : {"C"}, cmd : {"Test", "Other"},
     args : {<<>>} \cup {<<v>> : v \in Values}, kwargs : Kwargs]

InitForward ==
    /\ call \in ForwardCalls
    /\ result = [get |-> NoRecord, set |-> NoRecord, op |-> "none"]
    /\ instr = NoVal
    /\ feats = <<>>
    /\ use_cache = <<>>
    /\ cache = <<>>
    /\ hist = <<>>
    /\ watch = <<>>
    /\ lock = <<>>
    /\ pc = <<>>
    /\ fr = <<>>
    /\ live = {}
    /\ actor = NoThread
    /\ NoLimitsFeature
    /\ NoClassAssembly
    /\ NoComposer
    /\ NoChannels

\* ch.default_get_feature(feat, cmd, *args, **kwargs)
Channel_default_get_feature ==
    /\ result.op = "none"
    /\ result' = [result EXCEPT
          !.get = DummyParent_default(@, call.feat, call.cmd, call.args,
                                      Channel_kwargs(call.ch_id, call.kwargs)),
          !.op = "get"]

\* ch.default_set_feature(feat, cmd, *args, **kwargs)
Channel_default_set_feature ==
    /\ result.op = "none"
    /\ result' = [result EXCEPT
          !.set = DummyParent_default(@, call.feat, call.cmd, call.args,
                                      Channel_kwargs(call.ch_id, call.kwargs)),
          !.op = "set"]

NextForward ==
    /\ UNCHANGED <<feats, use_cache, cache, lock, pc, fr, live, actor, watch,
                   hist, instr, call>>
    /\ UNCHANGED <<limitsVars, classVars, composerVars, chanVars>>
    /\ \/ Channel_default_get_feature
       \/ Channel_default_set_feature

SpecForward == InitForward /\ [][NextForward]_vars

\* What the parent recorded for the forwarded call.
Forwarded == IF result.op = "get" THEN result.get ELSE result.set

\* C32: a channel's default_get_feature and default_set_feature call the
\* parent exactly once with the same attribute, command and positional
\* arguments, and with the caller's keyword arguments plus the channel's
\* identifier under the key 'ch_id'.
C32_ForwardWithChId ==
    result.op # "none" =>
       /\ Forwarded.called = 1
       /\ Forwarded.feat = call.feat
       /\ Forwarded.cmd = call.cmd
       /\ Forwarded.args = call.args
       /\ Forwarded.kwargs = dict_setitem(call.kwargs, "ch_id", call.ch_id)

\* ---------------------------------------------------------------------
\* Sub-container classes generated by HasFeaturesMeta.__new__.
\* ---------------------------------------------------------------------

\* The drivers under study, in definition order, and their bases as written
\* in the class statement: Top; Left(Top); Right(Top); Join(Left, Right).
Owners == <<"Top", "Left", "Right", "Join">>
OwnerNames == {Owners[i] : i \in 1..Len(Owners)}
owner_bases(c) ==
    CASE c = "Top" -> <<>>
      [] c = "Left" -> <<"Top">>
      [] c = "Right" -> <<"Top">>
      [] c = "Join" -> <<"Left", "Right">>

\* cls.__mro__[1:]: the drivers a driver inherits from, nearest first.
owner_mro(c) ==
    CASE c = "Top" -> <<>>
      [] c = "Left" -> <<"Top">>
      [] c = "Right" -> <<"Top">>
      [] c = "Join" -> <<"Left", "Right", "Top">>

\* The generated classes live in the heap; two classes exist from the start:
\* SubSystem itself and a SubSystem subclass used as an extra base.
SubSystemCls == 1
MixinCls == 2
PartFeats == {"a", "x"}
PartClass(name, bases, fs) == [name |-> name, bases |-> bases, feats |-> fs]
PartHeap0 == <<PartClass("SubSystem", <<>>, {}),
               PartClass("Mixin", <<SubSystemCls>>, {"m"})>>

\* subsystem(bases): what a class body declares under the name sub.
NoPart == [given |-> FALSE, bases |-> <<>>, feats |-> {}]
PartChoices ==
    {NoPart} \cup
    UNION {{[given |-> TRUE, bases |-> b, feats |-> f] : f \in SUBSET PartFeats}
              : b \in {<<>>, <<MixinCls>>}}

\* issubclass(a, b) for generated classes.
RECURSIVE part_issubclass(_, _, _)
part_issubclass(h, a, b) ==
    \/ a = b
    \/ \E i \in 1..Len(h[a].bases) : part_issubclass(h, h[a].bases[i], b)

\* The attribute names reachable on a generated class.
RECURSIVE part_attrs(_, _)
part_attrs(h, a) ==
    h[a].feats \cup UNION {part_attrs(h, h[a].bases[i]) : i \in 1..Len(h[a].bases)}

\* inherited_ss = dict([(k, v) for b in bases for k, v in
\* b.__subsystems__.items()]): a later base replaces an earlier one's entry.
RECURSIVE inherited_ss(_, _, _)
inherited_ss(cl, bases, i) ==
    IF i = 0 THEN NoObj
    ELSE IF cl[bases[i]].subsystems # NoObj THEN cl[bases[i]].subsystems
    ELSE inherited_ss(cl, bases, i - 1)

\* make_cls_from_subpart(parent_name, part_name, part, base, docs): the bases
\* of the generated class.
make_cls_from_subpart(h, name, part, base) ==
    PartClass(name,
              IF base # NoObj THEN <<base>> \o part.bases
              ELSE IF part.bases = <<>>
                      \/ ~part_issubclass(h, part.bases[1], SubSystemCls)
              THEN <<SubSystemCls>> \o part.bases
              ELSE part.bases,
              part.feats)

UndefinedOwner == [defined |-> FALSE, declared |-> NoPart, own |-> NoObj,
                   subsystems |-> NoObj]

InitParts ==
    /\ classes = [c \in OwnerNames |-> UndefinedOwner]
    /\ heap = PartHeap0
    /\ logs = <<>>
    /\ feats = <<>>
    /\ use_cache = <<>>
    /\ cache = <<>>
    /\ hist = <<>>
    /\ watch = <<>>
    /\ lock = <<>>
    /\ pc = <<>>
    /\ fr = <<>>
    /\ live = {}
    /\ actor = NoThread
    /\ NoLimitsFeature
    /\ NoComposer
    /\ NoChannels
    /\ NoScalars

\* The class statement of driver c whose body declares part under the name
\* sub: HasFeaturesMeta.__new__, the handling of the subparts.
DefineOwner(c, part) ==
    /\ ~classes[c].defined
    /\ \A i \in 1..Len(owner_bases(c)) : classes[owner_bases(c)[i]].defined
    /\ \E inh \in {inherited_ss(classes, owner_bases(c), Len(owner_bases(c)))} :
          IF part.given
          THEN /\ heap' = Append(heap, make_cls_from_subpart(heap, c, part, inh))
               /\ classes' = [classes EXCEPT ![c] =
                     [defined |-> TRUE, declared |-> part,
                      own |-> Len(heap) + 1, subsystems |-> Len(heap) + 1]]
          ELSE /\ heap' = heap
               /\ classes' = [classes EXCEPT ![c] =
                     [defined |-> TRUE, declared |-> part,
                      own |-> NoObj, subsystems |-> inh]]

NextParts ==
    /\ UNCHANGED <<feats, use_cache, cache, lock, pc, fr, live, actor, watch,
                   hist, logs>>
    /\ UNCHANGED <<limitsVars, composerVars, chanVars, scalarVars>>
    /\ \E c \in OwnerNames, part \in PartChoices : DefineOwner(c, part)

SpecParts == InitParts /\ [][NextParts]_vars

\* The ancestors of c that declared the sub-container themselves.
DeclaringAncestors(c) ==
    {owner_mro(c)[i] : i \in 1..Len(owner_mro(c))} \cap
    {a \in OwnerNames : classes[a].defined /\ classes[a].declared.given}

\* C33: when a class declares a sub-container under a name an ancestor already
\* declared, the generated class is a subclass of the ancestor's generated
\* class, whose place is before the extra bases of the new declaration; every
\* attribute the ancestor declared in the sub-container is present in the new
\* one; and instances of the ancestor keep the ancestor's generated class.
C33_SubpartInheritsAncestor ==
    \A c \in OwnerNames :
       (classes[c].defined /\ classes[c].declared.given) =>
          \A a \in DeclaringAncestors(c) :
             /\ part_issubclass(heap, classes[c].own, classes[a].own)
             /\ classes[a].declared.feats \subseteq part_attrs(heap, classes[c].own)
             /\ \E b \in DeclaringAncestors(c) :
                   heap[classes[c].own].bases =
                      <<classes[b].own>> \o classes[c].declared.bases
             /\ classes[a].subsystems = classes[a].own

\* ---------------------------------------------------------------------
\* IntLimitsValidator (limits.py).
\* ---------------------------------------------------------------------

\* An optional integer argument: None or an int.
NoneArg == [given |-> FALSE, v |-> 0]
Some(n) == [given |-> TRUE, v |-> n]

\* The integers the validator is tried on, and the steps it is built with.
IntRange == (0 - 1)..(MaxVal + 3)
StepRange == (0 - 2)..3
OptInts == {NoneArg} \cup {Some(n) : n \in IntRange}
OptSteps == {NoneArg} \cup {Some(n) : n \in StepRange}

\* a % b as Python computes it: the result takes the sign of the divisor.
py_mod(a, b) == IF b > 0 THEN a % b ELSE 0 - ((0 - a) % (0 - b))

\* The six validate methods; v is self, a record of minimum, maximum, step.
validate_smaller(v, value) == value <= v.maximum.v

validate_smaller_and_step(v, value) ==
    value <= v.maximum.v /\ py_mod(value - v.maximum.v, v.step.v) = 0

validate_larger(v, value) == value >= v.minimum.v

validate_larger_and_step(v, value) ==
    value >= v.minimum.v /\ py_mod(value - v.minimum.v, v.step.v) = 0

validate_range(v, value) == v.minimum.v <= value /\ value <= v.maximum.v

validate_range_no_step(v, value) == validate_range(v, value)
validate_range_and_step(v, value) ==
    /\ v.minimum.v <= value /\ value <= v.maximum.v
    /\ py_mod(value - v.minimum.v, v.step.v) = 0

\* if step: a step of None or 0 selects the methods without a step.
truthy(step) == step.given /\ step.v # 0

\* IntLimitsValidator.__init__(min, max, step): the error it raises or the
\* attributes it sets, validate naming the method bound to the instance.
IntLimitsValidator_init(min, max, step) ==
    IF ~min.given /\ ~max.given
    THEN [raised |-> "ValueError", minimum |-> min, maximum |-> max,
          step |-> step, validate |-> "none"]
    ELSE [raised |-> "none", minimum |-> min, maximum |-> max, step |-> step,
          validate |->
             IF min.given
             THEN IF max.given
                  THEN IF truthy(step) THEN "_validate_range_and_step"
                       ELSE "_validate_range"
                  ELSE IF truthy(step) THEN "_validate_larger_and_step"
                       ELSE "_validate_larger"
             ELSE IF truthy(step) THEN "_validate_smaller_and_step"
                  ELSE "_validate_smaller"]

\* validator.validate(value)
IntLimitsValidator_validate(v, value) ==
    CASE v.validate = "_validate_smaller" -> validate_smaller(v, value)
      [] v.validate = "_validate_smaller_and_step" ->
            validate_smaller_and_step(v, value)
      [] v.validate = "_validate_larger" -> validate_larger(v, value)
      [] v.validate = "_validate_larger_and_step" ->
            validate_larger_and_step(v, value)
      [] v.validate = "_validate_range" -> validate_range(v, value)
      [] v.validate = "_validate_range_and_step" ->
            validate_range_and_step(v, value)

NoValidator == [raised |-> "none", minimum |-> NoneArg, maximum |-> NoneArg,
                step |-> NoneArg, validate |-> "none"]

InitIntLimits ==
    /\ call \in [min : OptInts, max : OptInts, step : OptSteps, value : IntRange]
    /\ result = [stage |-> "none", validator |-> NoValidator, ret |-> FALSE]
    /\ instr = NoVal
    /\ feats = <<>>
    /\ use_cache = <<>>
    /\ cache = <<>>
    /\ hist = <<>>
    /\ watch = <<>>
    /\ lock = <<>>
    /\ pc = <<>>
    /\ fr = <<>>
    /\ live = {}
    /\ actor = NoThread
    /\ NoLimitsFeature
    /\ NoClassAssembly
    /\ NoComposer
    /\ NoChannels

\* validator = IntLimitsValidator(min, max, step)
construct ==
    /\ result.stage = "none"
    /\ \E v \in {IntLimitsValidator_init(call.min, call.max, call.step)} :
          result' = [stage |-> IF v.raised = "none" THEN "built" ELSE "raised",
                     validator |-> v, ret |-> FALSE]

\* validator.validate(value)
validate_call ==
    /\ result.stage = "built"
    /\ result' = [result EXCEPT
          !.stage = "validated",
          !.ret = IntLimitsValidator_validate(result.validator, call.value)]

NextIntLimits ==
    /\ UNCHANGED <<feats, use_cache, cache, lock, pc, fr, live, actor, watch,
                   hist, instr, call>>
    /\ UNCHANGED <<limitsVars, classVars, composerVars, chanVars>>
    /\ \/ construct
       \/ validate_call

SpecIntLimits == InitIntLimits /\ [][NextIntLimits]_vars

\* v differs from anchor by a whole multiple of step.
WholeMultiple(v, anchor, step) ==
    \E k \in (0 - (MaxVal + 4))..(MaxVal + 4) : v - anchor = k * step

\* What the validator is declared to accept.
RespectsLimits(c) ==
    /\ c.min.given => c.min.v <= c.value
    /\ c.max.given => c.value <= c.max.v
    /\ (c.step.given /\ c.step.v # 0) =>
          WholeMultiple(c.value, IF c.min.given THEN c.min.v ELSE c.max.v,
                        c.step.v)

\* C34: IntLimitsValidator(min, max, step).validate(v) is true exactly when v
\* respects every declared bound and, for a non-zero step, differs from min
\* (from max when only max is given) by a whole multiple of step; for min=1,
\* max=4, step=2 it is true for exactly 1 and 3 among 0..5.
C34_ValidateRespectsLimits ==
    result.stage = "validated" =>
       /\ result.ret = RespectsLimits(call)
       /\ (/\ call.min = Some(1) /\ call.max = Some(4) /\ call.step = Some(2)
           /\ call.value \in 0..5)
          => (result.ret = (call.value \in {1, 3}))

C34_Witness ==
    /\ result.stage = "validated"
    /\ call.min = Some(1) /\ call.max = Some(4) /\ call.step = Some(2)
    /\ call.value = 3
    /\ result.ret

\* ---------------------------------------------------------------------
\* Register: a byte seen as a mapping of named bits (register.py).
\* ---------------------------------------------------------------------

\* The number of names a Register takes, and the bytes it converts.
NBits == 8
Bytes == 0..(2^NBits - 1)

\* A name is a string; NoName stands for None, and IndexKeys[i + 1] for the
\* integer i used as the key of an unnamed bit.
NoName == "None"
IndexKeys == <<"0", "1", "2", "3", "4", "5", "6", "7">>

\* The names a Register is declared with: the tuples and the dict of the
\* tests, no name at all, all bits named, one name used twice, a name short.
NamesChoices ==
    {[dict |-> FALSE,
      names |-> <<"a", "b", NoName, "r", NoName, NoName, NoName, NoName>>],
     [dict |-> FALSE,
      names |-> <<NoName, NoName, NoName, NoName, NoName, NoName, NoName, NoName>>],
     [dict |-> FALSE,
      names |-> <<"a", "b", "c", "d", "e", "f", "g", "h">>],
     [dict |-> FALSE,
      names |-> <<"a", "a", NoName, NoName, NoName, NoName, NoName, NoName>>],
     [dict |-> FALSE, names |-> <<NoName>>],
     [dict |-> TRUE, names |-> <<"a", "b", NoName, "r">>]}

\* Register.__init__(names=...): the tuple kept as self.names, or the error.
\* A dict of names is given here as the names of the bits it lists.
Register_init(n) ==
    IF n.dict
    THEN [raised |-> "none",
          names |-> [i \in 1..NBits |->
                        IF i <= Len(n.names) /\ n.names[i] # NoName
                        THEN n.names[i] ELSE IndexKeys[i]]]
    ELSE IF Len(n.names) # NBits
    THEN [raised |-> "ValueError", names |-> <<>>]
    ELSE [raised |-> "none",
          names |-> [i \in 1..NBits |->
                        IF n.names[i] = NoName THEN IndexKeys[i]
                        ELSE n.names[i]]]

\* bit_conversion(x, i): bool(x & (1 << i))
bit_conversion_low(x, i) == x % 2 = 1
bit_conversion(x, i) == (x \div (2^i)) % 2 = 1

\* Register.byte_to_dict(instance, value): the OrderedDict built from the
\* pairs (n, bit_conversion(val, i)) in the order of enumerate(self.names).
RECURSIVE byte_to_dict(_, _, _)
byte_to_dict(names, val, k) ==
    IF k = 0 THEN <<>>
    ELSE OrderedDict_set(byte_to_dict(names, val, k - 1),
                         [id |-> names[k], value |-> bit_conversion(val, k - 1)])

\* Register.dict_to_byte(instance, value):
\* sum(2**self.names.index(k) for k in value if value[k])
RECURSIVE dict_to_byte(_, _, _)
dict_to_byte(names, value, k) ==
    IF k = 0 THEN 0
    ELSE dict_to_byte(names, value, k - 1) +
         (IF value[k].value THEN 2^(IndexOf(names, value[k].id) - 1) ELSE 0)

InitRegister ==
    /\ call \in [names : NamesChoices, byte : Bytes]
    /\ result = [stage |-> "none", names |-> <<>>, dict |-> <<>>,
                 byte |-> NoVal]
    /\ instr = NoVal
    /\ feats = <<>>
    /\ use_cache = <<>>
    /\ cache = <<>>
    /\ hist = <<>>
    /\ watch = <<>>
    /\ lock = <<>>
    /\ pc = <<>>
    /\ fr = <<>>
    /\ live = {}
    /\ actor = NoThread
    /\ NoLimitsFeature
    /\ NoClassAssembly
    /\ NoComposer
    /\ NoChannels

\* r = Register(names=...)
Register_declare ==
    /\ result.stage = "none"
    /\ \E r \in {Register_init(call.names)} :
          result' = [result EXCEPT
             !.stage = IF r.raised = "none" THEN "declared" ELSE "raised",
             !.names = r.names]

\* r.post_get(None, byte): the read-side conversion.
Register_post_get ==
    /\ result.stage = "declared"
    /\ result' = [result EXCEPT
          !.stage = "read",
          !.dict = byte_to_dict(result.names, call.byte, NBits)]

\* r.pre_set(None, mapping): the write-side conversion of the mapping read.
Register_pre_set ==
    /\ result.stage = "read"
    /\ result' = [result EXCEPT
          !.stage = "written",
          !.byte = dict_to_byte(result.names, result.dict, Len(result.dict))]

NextRegister ==
    /\ UNCHANGED <<feats, use_cache, cache, lock, pc, fr, live, actor, watch,
                   hist, instr, call>>
    /\ UNCHANGED <<limitsVars, classVars, composerVars, chanVars>>
    /\ \/ Register_declare
       \/ Register_post_get
       \/ Register_pre_set

SpecRegister == InitRegister /\ [][NextRegister]_vars

\* Bit i of byte b is set.
BitSet(b, i) == \E hi \in Bytes, lo \in 0..(2^i - 1) : b = hi * 2^(i + 1) + 2^i + lo

\* The mapping has one entry per bit, true exactly for the bits set in the
\* byte read, and its write-side conversion gives the byte again.
RoundTrip ==
    /\ result.stage \in {"read", "written"} =>
          /\ Len(result.dict) = NBits
          /\ \A i \in 1..NBits :
                \E j \in 1..Len(result.dict) :
                   /\ result.dict[j].id = result.names[i]
                   /\ result.dict[j].value = BitSet(call.byte, i - 1)
    /\ result.stage = "written" => result.byte = call.byte

\* C35 as stated: for a Register declared with 8 names (None marking an
\* unnamed bit) and every byte in 0..255, the read-side conversion yields one
\* entry per bit, true exactly when the bit is set, and the write-side
\* conversion of that mapping yields the byte again.
C35_RegisterRoundTrip ==
    (~call.names.dict /\ Len(call.names.names) = NBits) => RoundTrip

\* The names given are pairwise distinct.
DistinctNames ==
    \A i, j \in 1..Len(call.names.names) :
       (i # j /\ call.names.names[i] = call.names.names[j])
          => call.names.names[i] = NoName

\* C35 amended: the same, for a Register declared with 8 names of which no
\* two named bits share a name.
C35_RegisterRoundTripDistinct ==
    (~call.names.dict /\ Len(call.names.names) = NBits /\ DistinctNames)
       => RoundTrip

C35_Witness ==
    /\ result.stage = "written"
    /\ call.names.names = <<"a", "b", NoName, "r", NoName, NoName, NoName, NoName>>
    /\ call.byte = 10
    /\ result.byte = 10
    /\ \E j \in 1..Len(result.dict) :
          result.dict[j].id = "r" /\ result.dict[j].value

\* ---------------------------------------------------------------------
\* A failed anchored insertion (util.py, add_after and add_before).
\* ---------------------------------------------------------------------

\* C36: when add_before or add_after is called with an anchor id that is
\* absent from the composer, the call raises and the composer's names and
\* hooks are exactly as before the call, also when the id being inserted was
\* already present.
C36_FailedInsertKeepsComposer ==
    [][(/\ last'.op \in {"add_after", "add_before"}
        /\ ~InSeq(composer.obj.names, last'.anchor))
       => /\ last'.exc # "none"
          /\ composer'.obj = composer.obj]_vars

\* ---------------------------------------------------------------------
\* Customizations of one stage and their copy onto a rebuilt feature
\* (feature.py, modify_behavior and copy_custom_behaviors).
\* ---------------------------------------------------------------------

\* The stage under study is pre_set of a feature with limits: 'checks' is
\* prepended when checks are given, 'validate' appended when limits are.
InternalIds == <<"checks", "validate">>
CustomIds == {"c1", "c2"}
StageIds == CustomIds \cup {"checks", "validate"}
MaxCustoms == 3

\* One recorded customization: self._customs[stage][id] = (m, op[, anchor]).
Modifier(id, m, op, anchor) == [id |-> id, m |-> m, op |-> op, anchor |-> anchor]

\* The stage of a feature: the slot (a bound method or a composer) and the
\* customizations recorded for it.
FeatureStage(slot, customs) == [slot |-> slot, customs |-> customs]

\* Feature.__init__ and LimitsValidated.__init__ for the stage: the internal
\* steps the keyword arguments ask for, composed in this order.
Stage_init(kwargs) ==
    FeatureStage(
        With(IF kwargs.checks
             THEN MethodsComposer_prepend(EmptyComposer, "checks", "checks").c
             ELSE BoundMethod("pre_set"),
             LAMBDA s : IF kwargs.limits
                        THEN MethodsComposer_append(
                                 IF s.composer THEN s ELSE EmptyComposer,
                                 "validate", "validate").c
                        ELSE s),
        <<>>)

\* del customs[id]
OrderedDict_del(od, id) == SelectSeq(od, LAMBDA e : e.id # id)

\* Feature.modify_behavior(stage, m, specifiers, internal) for a composed
\* stage whose recorded customizations are absent or an OrderedDict: the
\* composer method named by the specifiers runs first, then the record is
\* updated.  A call that raises leaves ft as it was handed in here.
modify_behavior_composed(ft, m, specifiers, internal) ==
    LET comp == IF ft.slot.composer THEN ft.slot ELSE EmptyComposer
        id == specifiers[1]
        op == specifiers[2]
        r == CASE op = "add_before" ->
                     MethodsComposer_add_before(comp, specifiers[3], id, m)
               [] op = "add_after" ->
                     MethodsComposer_add_after(comp, specifiers[3], id, m)
               [] op = "remove" -> MethodsComposer_remove(comp, id)
               [] op = "replace" -> MethodsComposer_replace(comp, id, m)
               [] op = "prepend" -> MethodsComposer_prepend(comp, id, m)
               [] op = "append" -> MethodsComposer_append(comp, id, m)
        known == \E i \in 1..Len(ft.customs) : ft.customs[i].id = id
    IN IF r.exc # "none" THEN [ft |-> ft, exc |-> r.exc]
       ELSE IF internal THEN [ft |-> FeatureStage(r.c, ft.customs), exc |-> "none"]
       ELSE IF op = "remove"
       THEN IF ~known THEN [ft |-> ft, exc |-> "KeyError"]
            ELSE [ft |-> FeatureStage(r.c, OrderedDict_del(ft.customs, id)),
                  exc |-> "none"]
       ELSE IF op = "replace"
       THEN [ft |-> FeatureStage(r.c,
                 IF known
                 THEN [i \in 1..Len(ft.customs) |->
                          IF ft.customs[i].id = id
                          THEN Modifier(id, m, ft.customs[i].op, ft.customs[i].anchor)
                          ELSE ft.customs[i]]
                 ELSE IF IndexOf(r.c.names, id) = 1
                 THEN Append(ft.customs, Modifier(id, m, "prepend", ""))
                 ELSE Append(ft.customs,
                             Modifier(id, m, "add_after",
                                      r.c.names[IndexOf(r.c.names, id) - 1]))),
             exc |-> "none"]
       ELSE [ft |-> FeatureStage(r.c,
                 OrderedDict_set(ft.customs,
                     Modifier(id, m, op,
                              IF Len(specifiers) = 3 THEN specifiers[3] ELSE ""))),
             exc |-> "none"]

\* The search of copy_custom_behaviors for a substitute anchor: from the
\* 0-based index of the custom id in the original names,
\* `while index > 0 and index < len(feat_names)-1: index += shift`, until a
\* name present in our_names is met.  The result is that name, or "" when
\* the loop ends without one.
RECURSIVE find_anchor(_, _, _, _)
find_anchor(feat_names, our_names, index, shift) ==
    IF index > 0 /\ index < Len(feat_names) - 1
    THEN IF InSeq(our_names, feat_names[index + shift + 1])
         THEN feat_names[index + shift + 1]
         ELSE find_anchor(feat_names, our_names, index + shift, shift)
    ELSE ""

\* shift = -1 if modifier[1] == 'add_after' else -1
shift_of(op) == IF op = "add_after" THEN 0 - 1 ELSE 0 - 1

\* The specifiers copy_custom_behaviors passes to modify_behavior for one
\* recorded modifier, method being the current stage of the new feature.
copy_specifiers(method, feat_names, modifier) ==
    IF modifier.op \notin {"add_after", "add_before"}
    THEN <<modifier.id, modifier.op>>
    ELSE IF ~method.composer
    THEN <<modifier.id,
           IF modifier.op = "add_after" THEN "append" ELSE "prepend">>
    ELSE IF InSeq(method.names, modifier.anchor)
    THEN <<modifier.id, modifier.op, modifier.anchor>>
    ELSE With(find_anchor(feat_names, method.names,
                          IndexOf(feat_names, modifier.id) - 1,
                          shift_of(modifier.op)),
              LAMBDA name :
                 IF name # "" THEN <<modifier.id, modifier.op, name>>
                 ELSE <<modifier.id,
                        IF shift_of(modifier.op) = 0 - 1 THEN "prepend"
                        ELSE "append">>)

\* One replayed modifier, as the history keeps it.
ReplayStep(modifier, before, after) ==
    [id |-> modifier.id, op |-> modifier.op, anchor |-> modifier.anchor,
     composed |-> before.composer, before |-> before.names,
     after |-> after.names]

\* Feature.copy_custom_behaviors(feat) for the stage: the modifiers of feat
\* are replayed in the order of the OrderedDict.  st = [ft, exc, trace].
RECURSIVE copy_stage(_, _, _)
copy_stage(st, feat_names, modifiers) ==
    IF modifiers = <<>> \/ st.exc # "none" THEN st
    ELSE With(modify_behavior_composed(
                  st.ft, Head(modifiers).m,
                  copy_specifiers(st.ft.slot, feat_names, Head(modifiers)),
                  FALSE),
              LAMBDA r :
                 copy_stage([ft |-> r.ft, exc |-> r.exc,
                             trace |-> Append(st.trace,
                                 ReplayStep(Head(modifiers), st.ft.slot, r.ft.slot))],
                            feat_names, Tail(modifiers)))

\* set_feat(**kwargs).customize(feat): a new feature is built from the
\* creation arguments updated with those of the placeholder, then the custom
\* behaviors are copied.
set_feat_customize_stage(feat, kwargs) ==
    copy_stage([ft |-> Stage_init(kwargs), exc |-> "none", trace |-> <<>>],
               feat.slot.names, feat.customs)

StageKwargs == [checks : BOOLEAN, limits : BOOLEAN]

Specifiers ==
    UNION {{<<id, "prepend">>, <<id, "append">>, <<id, "replace">>,
            <<id, "remove">>} : id \in CustomIds}
    \cup UNION {{<<id, "add_after", a>>, <<id, "add_before", a>>}
                   : id \in CustomIds, a \in StageIds}

NoStage == FeatureStage(BoundMethod("pre_set"), <<>>)

InitCopy ==
    /\ \E k \in StageKwargs :
          /\ heap = [orig |-> Stage_init(k), new |-> NoStage]
          /\ classes = [phase |-> "declared", kwargs |-> k, custom_attrs |-> k,
                        n |-> 0, redeclared |-> FALSE, exc |-> "none"]
    /\ logs = <<>>
    /\ feats = <<>>
    /\ use_cache = <<>>
    /\ cache = <<>>
    /\ hist = <<>>
    /\ watch = <<>>
    /\ lock = <<>>
    /\ pc = <<>>
    /\ fr = <<>>
    /\ live = {}
    /\ actor = NoThread
    /\ NoLimitsFeature
    /\ NoComposer
    /\ NoChannels
    /\ NoScalars

\* An annotated method of the class body customizes the stage.  A
\* customization that raises ends the class statement.
customize(specifiers) ==
    /\ classes.phase = "declared"
    /\ classes.n < MaxCustoms
    /\ \E r \in {modify_behavior_composed(heap.orig, specifiers[1], specifiers,
                                          FALSE)} :
          /\ heap' = [heap EXCEPT !.orig = r.ft]
          /\ classes' = [classes EXCEPT
                !.phase = IF r.exc = "none" THEN "declared" ELSE "raised",
                !.n = @ + 1,
                !.redeclared = @ \/ specifiers[2] \in {"replace", "remove"}
                                 \/ \E i \in 1..Len(heap.orig.customs) :
                                       heap.orig.customs[i].id = specifiers[1],
                !.exc = r.exc]
    /\ UNCHANGED logs

\* A subclass declares feat = set_feat(**custom_attrs).
rebuild(custom_attrs) ==
    /\ classes.phase = "declared"
    /\ \E r \in {set_feat_customize_stage(heap.orig, custom_attrs)} :
          /\ heap' = [heap EXCEPT !.new = r.ft]
          /\ logs' = r.trace
          /\ classes' = [classes EXCEPT !.phase = "rebuilt",
                                        !.custom_attrs = custom_attrs,
                                        !.exc = r.exc]

NextCopy ==
    /\ UNCHANGED <<feats, use_cache, cache, lock, pc, fr, live, actor, watch,
                   hist>>
    /\ UNCHANGED <<limitsVars, composerVars, chanVars, scalarVars>>
    /\ \/ \E specifiers \in Specifiers : customize(specifiers)
       \/ \E custom_attrs \in StageKwargs : rebuild(custom_attrs)

SpecCopy == InitCopy /\ [][NextCopy]_vars

\* C37: for any sequence of annotated customizations of one stage, a later
\* one re-declaring an earlier id included, rebuilding the attribute through
\* a placeholder that removes no anchor yields a stage whose hook ids are in
\* the same order as in the original stage.
C37_RebuildKeepsOrder ==
    (/\ classes.phase = "rebuilt"
     /\ classes.custom_attrs = classes.kwargs)
       => /\ classes.exc = "none"
          /\ heap.new.slot.names = heap.orig.slot.names

\* Where a replayed hook belongs among the hooks `base` of the rebuilt stage,
\* going by the original ordering: directly after the nearest preceding hook
\* still present (prepended when there is none) for add_after, directly
\* before the nearest following one (appended when there is none) for
\* add_before.
NearestPlace(op, id, base, orig_names) ==
    LET i == IndexOf(orig_names, id)
        preceding == {j \in 1..(i - 1) : InSeq(base, orig_names[j])}
        following == {j \in (i + 1)..Len(orig_names) : InSeq(base, orig_names[j])}
        last_before == CHOOSE j \in preceding : \A k \in preceding : k <= j
        first_after == CHOOSE j \in following : \A k \in following : j <= k
    IN IF op = "add_after"
       THEN IF preceding = {} THEN <<id>> \o base
            ELSE InsertAt(base, IndexOf(base, orig_names[last_before]) + 1, id)
       ELSE IF following = {} THEN Append(base, id)
            ELSE InsertAt(base, IndexOf(base, orig_names[first_after]), id)

\* C38: when an attribute is rebuilt through an override-placeholder and a
\* recorded add_after (add_before) customization names an anchor absent from
\* the rebuilt stage, the hook is inserted directly after the nearest
\* preceding (directly before the nearest following) hook of the original
\* ordering still present in the rebuilt stage, and prepended (appended) only
\* when there is no such hook.
C38_AbsentAnchorNearestPlace ==
    classes.phase = "rebuilt" =>
       \A k \in 1..Len(logs) :
          (/\ logs[k].op \in {"add_after", "add_before"}
           /\ ~InSeq(logs[k].before, logs[k].anchor))
             => logs[k].after =
                   NearestPlace(logs[k].op, logs[k].id,
                                SelectSeq(logs[k].before,
                                          LAMBDA n : n # logs[k].id),
                                heap.orig.slot.names)

\* ---------------------------------------------------------------------
\* Nested accesses from one thread: a check or hook of a feature reads or
\* writes another feature while the first access holds the lock.
\* ---------------------------------------------------------------------

\* An access: the host, the feature and whether it is read or written.
Accesses == [host : Hosts, name : {"A", "B"}, op : {"get", "set"}]
NoAccess == [host |-> NoHost, name |-> "", op |-> "none"]

\* How deep accesses nest, and how many accesses the checks and hooks of one
\* outer access make in all.
MaxDepth == 2
MaxNested == 2

\* What a check or a stage raises.
NestedErrors == {"AssertionError"}

\* The state of a thread: the accesses it is inside of (outermost first), the
\* access whose lock it is waiting for, the exception on its way out, and the
\* nested accesses started since the outer one began.
NestFrame(stack, want, exc, nests) ==
    [stack |-> stack, want |-> want, exc |-> exc, nests |-> nests]

NestHist(nests, sub, exc) == [nests |-> nests, sub |-> sub, exc |-> exc]

InitNested ==
    /\ lock = [h \in Hosts |-> FreeLock]
    /\ pc = [t \in Threads |-> "idle"]
    /\ fr = [t \in Threads |-> NestFrame(<<>>, NoAccess, "none", 0)]
    /\ hist = [t \in Threads |-> NestHist(0, FALSE, "none")]
    /\ live = Threads
    /\ actor = NoThread
    /\ feats = <<>>
    /\ use_cache = <<>>
    /\ cache = <<>>
    /\ watch = <<>>
    /\ NoLimitsFeature
    /\ NoClassAssembly
    /\ NoComposer
    /\ NoChannels
    /\ NoScalars

\* driver.A / driver.A = v from user code: the thread reaches `with
\* driver.lock:` of Feature._get or Feature._set.
access(t, a) ==
    /\ pc[t] = "idle"
    /\ pc' = [pc EXCEPT ![t] = "waiting"]
    /\ fr' = [fr EXCEPT ![t] = NestFrame(<<>>, a, "none", 0)]
    /\ hist' = [hist EXCEPT ![t] = NestHist(0, FALSE, "none")]
    /\ UNCHANGED lock

\* A check or hook of the access in progress reads or writes another
\* feature of the same host or of a sub-container: the thread reaches
\* `with driver.lock:` again.
nested_access(t, a) ==
    /\ pc[t] = "running"
    /\ Len(fr[t].stack) < MaxDepth
    /\ fr[t].nests < MaxNested
    /\ \A i \in 1..Len(fr[t].stack) :
          <<fr[t].stack[i].host, fr[t].stack[i].name>> # <<a.host, a.name>>
    /\ pc' = [pc EXCEPT ![t] = "waiting"]
    /\ fr' = [fr EXCEPT ![t].want = a, ![t].nests = @ + 1]
    /\ hist' = [hist EXCEPT ![t].nests = @ + 1,
                            ![t].sub = @ \/ a.host # fr[t].stack[1].host]
    /\ UNCHANGED lock

\* lock.__enter__: RLock.acquire().
lock_enter(t) ==
    /\ pc[t] = "waiting"
    /\ CanAcquire(LockOf(fr[t].want.host), t)
    /\ lock' = Acquire(LockOf(fr[t].want.host), t)
    /\ pc' = [pc EXCEPT ![t] = "running"]
    /\ fr' = [fr EXCEPT ![t].stack = Append(@, fr[t].want), ![t].want = NoAccess]
    /\ hist' = hist

\* The innermost access returns (e = "none") or raises e; an exception on
\* its way out of a nested access leaves the enclosing one as well.
\* lock.__exit__: RLock.release().
lock_exit(t, e) ==
    /\ pc[t] = "running"
    /\ fr[t].exc # "none" => e = fr[t].exc
    /\ lock' = Release(LockOf(fr[t].stack[Len(fr[t].stack)].host), t)
    /\ fr' = [fr EXCEPT ![t].stack = SubSeq(@, 1, Len(@) - 1),
                        ![t].exc = IF Len(fr[t].stack) = 1 THEN "none" ELSE e]
    /\ pc' = [pc EXCEPT ![t] = IF Len(fr[t].stack) = 1 THEN "idle" ELSE "running"]
    /\ hist' = [hist EXCEPT ![t].exc = e]

\* Every step thread t can take while it is inside an access.
NestedStep(t) ==
    \/ \E a \in Accesses : nested_access(t, a)
    \/ lock_enter(t)
    \/ \E e \in NestedErrors \cup {"none"} : lock_exit(t, e)

NextNested ==
    /\ UNCHANGED <<feats, use_cache, cache, live, actor, watch>>
    /\ UNCHANGED <<limitsVars, classVars, composerVars, chanVars, scalarVars>>
    /\ \E t \in Threads :
          \/ \E a \in Accesses : access(t, a)
          \/ \E a \in Accesses : nested_access(t, a)
          \/ lock_enter(t)
          \/ \E e \in NestedErrors \cup {"none"} : lock_exit(t, e)

SpecNested == InitNested /\ [][NextNested]_vars

\* A thread inside an access keeps running: it is never suspended for ever
\* while one of its steps stays possible.
SpecNestedFair ==
    SpecNested /\ \A t \in Threads : WF_vars(NestedStep(t) /\ NextNested)

\* Thread t is inside an outer access.
Inside(t) == fr[t].stack # <<>>

\* C39: an access whose check or hook makes a nested access to a feature of
\* the same host, or of a sub-container sharing its lock, from the same
\* thread always completes: the nested access acquires the lock without
\* blocking, and the lock is free again once the outer access has returned
\* or raised.
C39_NestedAccessCompletes ==
    /\ [](\A t \in Threads :
             /\ (Inside(t) /\ pc[t] = "waiting")
                   => CanAcquire(LockOf(fr[t].want.host), t)
             /\ ~Inside(t) => \A h \in Hosts : lock[h].owner # t
             /\ Inside(t) => lock[LockOf(fr[t].stack[1].host)] =
                                [owner |-> t, count |-> Len(fr[t].stack)])
    /\ \A t \in Threads : Inside(t) ~> ~Inside(t)

C39_Witness ==
    \E t \in Threads :
       /\ pc[t] = "idle"
       /\ hist[t].nests >= 1
       /\ hist[t].sub
       /\ hist[t].exc \in NestedErrors
       /\ \A h \in Hosts : lock[h] = FreeLock

====
